---- MODULE Spec2Model ----
(***************************************************************************)
(* A model of db/write_batch.cc: the WriteBatch byte buffer (header,       *)
(* records, content-flag cache, save-points), WriteBatch::Iterate with a   *)
(* visitor, and the MemTableInserter that applies a batch to memtables.    *)
(*                                                                         *)
(* A buffer (rep_) is a sequence of bytes 0..255.  Sequence numbers and    *)
(* counts stay far below 2^31 in every run, so the four high bytes of the  *)
(* fixed64 sequence field are always zero.                                 *)
(***************************************************************************)
EXTENDS Integers, Sequences, FiniteSets, TLC

\* ------------------------------------------------------------------------
\* Bounds of the model
\* ------------------------------------------------------------------------

\* Largest payload (bytes after the header) a batch is grown to.
MaxPayload == 8
\* Largest depth of a save-point stack.
MaxSavePoints == 2
\* Number of operations in a run of the specifications that count them.
MaxSteps == 5
\* Largest number of records in a buffer handed to Iterate.
MaxRecords == 2
\* Width of size_t in bits, narrowed from 64: the arithmetic of the byte
\* sizes wraps at 2^SizeBits.
SizeBits == 16

\* ------------------------------------------------------------------------
\* Program constants
\* ------------------------------------------------------------------------

DEFERRED == 1
HAS_PUT == 2
HAS_DELETE == 4
HAS_SINGLE_DELETE == 8
HAS_MERGE == 16

kHeader == 12

\* ValueType tags of db/dbformat.h (not part of this file).
kTypeDeletion == 0
kTypeValue == 1
kTypeMerge == 2
kTypeLogData == 3
kTypeColumnFamilyDeletion == 4
kTypeColumnFamilyValue == 5
kTypeColumnFamilyMerge == 6
kTypeSingleDeletion == 7
kTypeColumnFamilySingleDeletion == 8

\* The null pointer.
NULL == 0

\* ------------------------------------------------------------------------
\* Bit operations on the content-flag word (five bits are in use)
\* ------------------------------------------------------------------------

FlagBits == {DEFERRED, HAS_PUT, HAS_DELETE, HAS_SINGLE_DELETE, HAS_MERGE}

HasBit(w, f) == (w \div f) % 2 = 1

RECURSIVE SumSet(_)
SumSet(S) == IF S = {} THEN 0
             ELSE LET x == CHOOSE y \in S : TRUE IN x + SumSet(S \ {x})

BitOr(a, b) == SumSet({f \in FlagBits : HasBit(a, f) \/ HasBit(b, f)})

\* ------------------------------------------------------------------------
\* util/coding.h: fixed-width and varint codecs (modelled from the
\* specification's section 4.1)
\* ------------------------------------------------------------------------

EncodeFixed32(n) ==
    << n % 256, (n \div 256) % 256, (n \div 65536) % 256,
       (n \div 16777216) % 256 >>

DecodeFixed32(bytes) ==
    bytes[1] + 256 * bytes[2] + 65536 * bytes[3] + 16777216 * bytes[4]

EncodeFixed64(n) == EncodeFixed32(n) \o <<0, 0, 0, 0>>

DecodeFixed64(bytes) == DecodeFixed32(SubSeq(bytes, 1, 4))

RECURSIVE PutVarint32(_)
PutVarint32(v) ==
    IF v < 128 THEN <<v>>
    ELSE <<128 + (v % 128)>> \o PutVarint32(v \div 128)

\* A continuation byte in front of the varint r.
VarintCons(byte, r) ==
    [ok |-> r.ok, value |-> (byte - 128) + 128 * r.value, len |-> r.len + 1]

\* Decodes at most n more bytes of a varint.
RECURSIVE VarintDecode(_, _)
VarintDecode(input, n) ==
    IF n = 0 \/ input = <<>> THEN [ok |-> FALSE, value |-> 0, len |-> 0]
    ELSE IF Head(input) < 128
         THEN [ok |-> TRUE, value |-> Head(input), len |-> 1]
         ELSE VarintCons(Head(input), VarintDecode(Tail(input), n - 1))

VarintRest(input, r) ==
    [ok |-> r.ok, value |-> r.value,
     rest |-> SubSeq(input, r.len + 1, Len(input))]

GetVarint32(input) == VarintRest(input, VarintDecode(input, 5))

PutLengthPrefixedSlice(value) == PutVarint32(Len(value)) \o value

\* The slice after its decoded length l.
SliceOfLength(input, l) ==
    IF l.ok /\ Len(l.rest) >= l.value
    THEN [ok |-> TRUE, slice |-> SubSeq(l.rest, 1, l.value),
          rest |-> SubSeq(l.rest, l.value + 1, Len(l.rest))]
    ELSE [ok |-> FALSE, slice |-> <<>>, rest |-> input]

GetLengthPrefixedSlice(input) == SliceOfLength(input, GetVarint32(input))

\* ------------------------------------------------------------------------
\* Header accessors
\* ------------------------------------------------------------------------

Zeros(n) == [i \in 1..n |-> 0]

Count(rep) == DecodeFixed32(SubSeq(rep, 9, 12))

SetCount(rep, n) ==
    SubSeq(rep, 1, 8) \o EncodeFixed32(n) \o SubSeq(rep, 13, Len(rep))

Sequence(rep) == DecodeFixed64(SubSeq(rep, 1, 8))

SetSequence(rep, seq) == EncodeFixed64(seq) \o SubSeq(rep, 9, Len(rep))

Payload(rep) == SubSeq(rep, kHeader + 1, Len(rep))

\* ------------------------------------------------------------------------
\* Records and their encoding (WriteBatchInternal::Put / Delete /
\* SingleDelete / Merge, WriteBatch::PutLogData)
\* ------------------------------------------------------------------------

\* A batch value: the buffer and the content-flag word.  The save-point
\* pointer is kept beside it in the state.
WriteBatch0 == [rep |-> Zeros(kHeader), content_flags |-> 0]

WriteBatchFromRep(rep) == [rep |-> rep, content_flags |-> DEFERRED]

\* PutRec that writes no column family.
PutRec_NoFamily(b, column_family_id, key, value) ==
    [rep |-> SetCount(b.rep, Count(b.rep) + 1)
             \o <<kTypeValue>>
             \o PutLengthPrefixedSlice(key)
             \o PutLengthPrefixedSlice(value),
     content_flags |-> BitOr(b.content_flags, HAS_PUT)]

PutRec(b, column_family_id, key, value) ==
    [rep |-> SetCount(b.rep, Count(b.rep) + 1)
             \o (IF column_family_id = 0
                 THEN <<kTypeValue>>
                 ELSE <<kTypeColumnFamilyValue>> \o PutVarint32(column_family_id))
             \o PutLengthPrefixedSlice(key)
             \o PutLengthPrefixedSlice(value),
     content_flags |-> BitOr(b.content_flags, HAS_PUT)]

DeleteRec(b, column_family_id, key) ==
    [rep |-> SetCount(b.rep, Count(b.rep) + 1)
             \o (IF column_family_id = 0
                 THEN <<kTypeDeletion>>
                 ELSE <<kTypeColumnFamilyDeletion>> \o PutVarint32(column_family_id))
             \o PutLengthPrefixedSlice(key),
     content_flags |-> BitOr(b.content_flags, HAS_DELETE)]

SingleDeleteRec(b, column_family_id, key) ==
    [rep |-> SetCount(b.rep, Count(b.rep) + 1)
             \o (IF column_family_id = 0
                 THEN <<kTypeSingleDeletion>>
                 ELSE <<kTypeColumnFamilySingleDeletion>>
                      \o PutVarint32(column_family_id))
             \o PutLengthPrefixedSlice(key),
     content_flags |-> BitOr(b.content_flags, HAS_SINGLE_DELETE)]

MergeRec(b, column_family_id, key, value) ==
    [rep |-> SetCount(b.rep, Count(b.rep) + 1)
             \o (IF column_family_id = 0
                 THEN <<kTypeMerge>>
                 ELSE <<kTypeColumnFamilyMerge>> \o PutVarint32(column_family_id))
             \o PutLengthPrefixedSlice(key)
             \o PutLengthPrefixedSlice(value),
     content_flags |-> BitOr(b.content_flags, HAS_MERGE)]

PutLogDataRec(b, blob) ==
    [rep |-> b.rep \o <<kTypeLogData>> \o PutLengthPrefixedSlice(blob),
     content_flags |-> b.content_flags]

\* A record as the caller hands it to an append operation.
Rec(kind, cf, key, value) ==
    [kind |-> kind, cf |-> cf, key |-> key, value |-> value]

AppendRec(b, r) ==
    CASE r.kind = "Put"          -> PutRec(b, r.cf, r.key, r.value)
      [] r.kind = "Delete"       -> DeleteRec(b, r.cf, r.key)
      [] r.kind = "SingleDelete" -> SingleDeleteRec(b, r.cf, r.key)
      [] r.kind = "Merge"        -> MergeRec(b, r.cf, r.key, r.value)
      [] r.kind = "LogData"      -> PutLogDataRec(b, r.value)

\* ------------------------------------------------------------------------
\* ReadRecordFromWriteBatch
\* ------------------------------------------------------------------------

\* A Status: its code and its message.
Status(code, msg) == <<code, msg>>

OK == Status("OK", "")

Corruption(msg) == Status("Corruption", msg)

NotFound == Status("NotFound", "")

InvalidArgument(msg) == Status("InvalidArgument", msg)

RecordRead(s, tag, cf, key, value, blob, rest) ==
    [s |-> s, tag |-> tag, column_family |-> cf, key |-> key,
     value |-> value, blob |-> blob, input |-> rest]

\* The value v read after the key k.
ReadValue(tag, cf, msg, k, v) ==
    IF ~v.ok
    THEN RecordRead(Corruption(msg), tag, cf, k.slice, <<>>, <<>>, k.rest)
    ELSE RecordRead(OK, tag, cf, k.slice, v.slice, <<>>, v.rest)

\* The key k read, then the value where the record kind has one.
ReadKey(tag, cf, input, withValue, msg, k) ==
    IF ~k.ok THEN RecordRead(Corruption(msg), tag, cf, <<>>, <<>>, <<>>, input)
    ELSE IF ~withValue
         THEN RecordRead(OK, tag, cf, k.slice, <<>>, <<>>, k.rest)
         ELSE ReadValue(tag, cf, msg, k, GetLengthPrefixedSlice(k.rest))

\* key [, value] after an optional column family id
ReadKeyValue(tag, cf, input, withValue, msg) ==
    ReadKey(tag, cf, input, withValue, msg, GetLengthPrefixedSlice(input))

\* The column family id c read, then key [, value].
ReadAfterColumnFamily(tag, input, withValue, msg, c) ==
    IF ~c.ok THEN RecordRead(Corruption(msg), tag, 0, <<>>, <<>>, <<>>, input)
    ELSE ReadKeyValue(tag, c.value, c.rest, withValue, msg)

ReadWithColumnFamily(tag, input, withValue, msg) ==
    ReadAfterColumnFamily(tag, input, withValue, msg, GetVarint32(input))

\* The blob bl read.
ReadBlob(tag, rest, bl) ==
    IF bl.ok
    THEN RecordRead(OK, tag, 0, <<>>, <<>>, bl.slice, bl.rest)
    ELSE RecordRead(Corruption("bad WriteBatch Blob"), tag, 0,
                    <<>>, <<>>, <<>>, rest)

\* The record that starts with `tag`, read from the bytes after it.
ReadTagged(tag, rest) ==
    CASE tag = kTypeColumnFamilyValue ->
           ReadWithColumnFamily(tag, rest, TRUE, "bad WriteBatch Put")
      [] tag = kTypeValue ->
           ReadKeyValue(tag, 0, rest, TRUE, "bad WriteBatch Put")
      [] tag \in {kTypeColumnFamilyDeletion, kTypeColumnFamilySingleDeletion} ->
           ReadWithColumnFamily(tag, rest, FALSE, "bad WriteBatch Delete")
      [] tag \in {kTypeDeletion, kTypeSingleDeletion} ->
           ReadKeyValue(tag, 0, rest, FALSE, "bad WriteBatch Delete")
      [] tag = kTypeColumnFamilyMerge ->
           ReadWithColumnFamily(tag, rest, TRUE, "bad WriteBatch Merge")
      [] tag = kTypeMerge ->
           ReadKeyValue(tag, 0, rest, TRUE, "bad WriteBatch Merge")
      [] tag = kTypeLogData ->
           ReadBlob(tag, rest, GetLengthPrefixedSlice(rest))
      [] OTHER ->
           RecordRead(Corruption("unknown WriteBatch tag"), tag, 0,
                      <<>>, <<>>, <<>>, rest)

\* input is not empty
ReadRecordFromWriteBatch(input) == ReadTagged(Head(input), Tail(input))

\* The callback WriteBatch::Iterate dispatches a tag to.
TagKind(tag) ==
    CASE tag \in {kTypeColumnFamilyValue, kTypeValue} -> "Put"
      [] tag \in {kTypeColumnFamilyDeletion, kTypeDeletion} -> "Delete"
      [] tag \in {kTypeColumnFamilySingleDeletion, kTypeSingleDeletion} -> "SingleDelete"
      [] tag \in {kTypeColumnFamilyMerge, kTypeMerge} -> "Merge"
      [] tag = kTypeLogData -> "LogData"
      [] OTHER -> "Unknown"

\* The flag the assertion in WriteBatch::Iterate expects for a record kind,
\* and the one BatchContentClassifier ORs in.
KindFlag(kind) ==
    CASE kind = "Put" -> HAS_PUT
      [] kind = "Delete" -> HAS_DELETE
      [] kind = "SingleDelete" -> HAS_SINGLE_DELETE
      [] kind = "Merge" -> HAS_MERGE
      [] OTHER -> 0

\* The record a successful read hands to the visitor.
Dispatched(r) ==
    Rec(TagKind(r.tag), r.column_family, r.key,
        IF r.tag = kTypeLogData THEN r.blob ELSE r.value)

\* ------------------------------------------------------------------------
\* WriteBatch::Iterate with a visitor whose callbacks all return OK and whose
\* Continue() is the default (true): what BatchContentClassifier sees
\* ------------------------------------------------------------------------

\* The loop of WriteBatch::Iterate from `input` on; IterateRecord is its
\* body once the record r has been read.
RECURSIVE IterateLoop(_, _, _, _)
IterateRecord(r, found, flags, recs) ==
    IF r.s # OK
    THEN [s |-> r.s, found |-> found, content_flags |-> flags, recs |-> recs]
    ELSE IterateLoop(r.input,
                     IF r.tag = kTypeLogData THEN found ELSE found + 1,
                     BitOr(flags, KindFlag(TagKind(r.tag))),
                     Append(recs, Dispatched(r)))

IterateLoop(input, found, flags, recs) ==
    IF input = <<>>
    THEN [s |-> OK, found |-> found, content_flags |-> flags, recs |-> recs]
    ELSE IterateRecord(ReadRecordFromWriteBatch(input), found, flags, recs)

\* IterateReturn without the comparison of found with the header count.
IterateReturn_NoCountCheck(s, found, count) == s

\* The status Iterate returns once the loop has ended with status s.
IterateReturn(s, found, count) ==
    IF s # OK THEN s
    ELSE IF found # count THEN Corruption("WriteBatch has wrong count")
    ELSE OK

\* The loop's outcome l with the status Iterate returns.
IterateEnd(l, count) == [l EXCEPT !.s = IterateReturn(l.s, l.found, count)]

Iterate(rep) ==
    IF Len(rep) < kHeader
    THEN [s |-> Corruption("malformed WriteBatch (too small)"), found |-> 0,
          content_flags |-> 0, recs |-> <<>>]
    ELSE IterateEnd(IterateLoop(Payload(rep), 0, 0, <<>>), Count(rep))

ComputeContentFlags(b) ==
    IF HasBit(b.content_flags, DEFERRED)
    THEN [b EXCEPT !.content_flags = Iterate(b.rep).content_flags]
    ELSE b

\* ------------------------------------------------------------------------
\* Save-points, Clear, SetContents, Append on a batch value
\* ------------------------------------------------------------------------

SavePoint(b) ==
    [size |-> Len(b.rep), count |-> Count(b.rep),
     content_flags |-> b.content_flags]

\* ClearRep that leaves the flag word.
ClearRep_KeepFlags(b) == [rep |-> Zeros(kHeader), content_flags |-> b.content_flags]

ClearRep(b) == [rep |-> Zeros(kHeader), content_flags |-> 0]

\* std::string::resize
Resize(rep, n) ==
    IF n <= Len(rep) THEN SubSeq(rep, 1, n) ELSE rep \o Zeros(n - Len(rep))

\* The branch RollbackToSavePoint takes for a popped save-point.
RollbackBranch(b, savepoint) ==
    IF savepoint.size = Len(b.rep) THEN "noop"
    ELSE IF savepoint.size = 0 THEN "clear"
    ELSE "truncate"

\* RollbackTo that clears the batch for a save-point at the header.
RollbackTo_ClearAtHeader(b, savepoint) ==
    IF savepoint.size = Len(b.rep) THEN b
    ELSE IF savepoint.size = kHeader THEN ClearRep(b)
    ELSE [rep |-> SetCount(Resize(b.rep, savepoint.size), savepoint.count),
          content_flags |-> savepoint.content_flags]

\* The buffer and flag word RollbackToSavePoint leaves for a popped save-point.
RollbackTo(b, savepoint) ==
    IF savepoint.size = Len(b.rep) THEN b
    ELSE IF savepoint.size = 0 THEN ClearRep(b)
    ELSE [rep |-> SetCount(Resize(b.rep, savepoint.size), savepoint.count),
          content_flags |-> savepoint.content_flags]

SetContentsRep(b, contents) ==
    [rep |-> contents, content_flags |-> DEFERRED]

\* AppendBatch that leaves dst's count as it was.
AppendBatch_KeepCount(dst, src) ==
    [rep |-> dst.rep \o SubSeq(src.rep, kHeader + 1, Len(src.rep)),
     content_flags |-> BitOr(dst.content_flags, src.content_flags)]

AppendBatch(dst, src) ==
    [rep |-> SetCount(dst.rep, Count(dst.rep) + Count(src.rep))
             \o SubSeq(src.rep, kHeader + 1, Len(src.rep)),
     content_flags |-> BitOr(dst.content_flags, src.content_flags)]

\* Unsigned arithmetic on size_t.
SizeT(n) == n % (2 ^ SizeBits)

AppendedByteSize(leftByteSize, rightByteSize) ==
    IF leftByteSize = 0 \/ rightByteSize = 0
    THEN SizeT(leftByteSize + rightByteSize)
    ELSE SizeT(SizeT(leftByteSize + rightByteSize) - kHeader)

\* ------------------------------------------------------------------------
\* State
\* ------------------------------------------------------------------------

VARIABLES
    batch,          \* batch id -> [rep, content_flags]: rep_ and content_flags_
    save_points_,   \* batch id -> address of its SavePoints, or NULL
    heap,           \* address -> the std::stack<SavePoint> stored there
    live,           \* the addresses allocated and not yet deleted
    alive,          \* the batch objects constructed and not yet destroyed
    crashed,        \* the process has aborted
    pushed,         \* history: address -> the batch values at each push
    last,           \* history: the last operation and what it returned
    steps,          \* history: the operations performed, where counted
    it,             \* WriteBatch::Iterate: its position, locals and history
    ins,            \* the MemTableInserter, and the memtables it writes to
    grp,            \* InsertInto(writers, ...): the writers and its position
    threads,        \* thread -> its position and locals, where threads run
    memtables       \* the memtables' flush_state_ and the flush scheduler

batchVars ==
    <<batch, save_points_, heap, live, alive, crashed, pushed, last>>

vars == <<batchVars, steps, it, ins, grp, threads, memtables>>

Threads == {1, 2}

BatchIds == {1, 2}

Addr == {1, 2}

\* ------------------------------------------------------------------------
\* Inputs
\* ------------------------------------------------------------------------

ColumnFamilyIds == {0, 1}

Keys == {<<97>>}

Values == {<<98>>}

Blobs == {<<120>>}

MutationKinds == {"Put", "Delete", "SingleDelete", "Merge"}

Records ==
    {Rec(k, cf, key, IF k \in {"Put", "Merge"} THEN v ELSE <<>>) :
        k \in MutationKinds, cf \in ColumnFamilyIds, key \in Keys, v \in Values}
    \cup {Rec("LogData", 0, <<>>, bl) : bl \in Blobs}

\* Well-formed serialized batches, as read back from a log: a sequence
\* number in the header, a count that matches the payload.
Serialized ==
    { SetSequence(WriteBatch0.rep, 7),
      SetSequence(PutRec(WriteBatch0, 0, <<97>>, <<98>>).rep, 7),
      SetSequence(DeleteRec(WriteBatch0, 1, <<97>>).rep, 9) }

\* The strings WriteBatchInternal::SetContents is given: serialized batches,
\* each with a count that matches its payload.
Contents ==
    Serialized
    \cup { SetSequence(DeleteRec(MergeRec(WriteBatch0, 0, <<97>>, <<98>>),
                                 0, <<97>>).rep, 9) }

\* The batches a run starts from: WriteBatch(size_t), or
\* WriteBatch(const std::string&) on a serialized batch.
InitBatches ==
    { WriteBatch0,
      WriteBatchFromRep(SetSequence(WriteBatch0.rep, 7)),
      WriteBatchFromRep(SetSequence(PutRec(WriteBatch0, 0, <<97>>, <<98>>).rep, 7)) }

\* The batches WriteBatchInternal::Append is given as src.
SrcBatches ==
    {WriteBatch0}
    \cup {AppendRec(WriteBatch0, r) : r \in Records}
    \cup {WriteBatchFromRep(c) : c \in Serialized}

Op(name, b, branch, depth, sp, snap) ==
    [op |-> name, b |-> b, branch |-> branch, depth |-> depth, sp |-> sp,
     snap |-> snap]

NoSavePoint == [size |-> 0, count |-> 0, content_flags |-> 0]

\* The save-point stack a batch's pointer leads to.
Stack(b) == IF save_points_[b] = NULL THEN <<>> ELSE heap[save_points_[b]]

Running(b) == ~crashed /\ b \in alive

Fits(b, n) == Len(batch[b].rep) + n <= kHeader + MaxPayload

\* ------------------------------------------------------------------------
\* Construction
\* ------------------------------------------------------------------------

\* Batch 1 is constructed, empty (WriteBatch(size_t)) or from a serialized
\* string (WriteBatch(const std::string&)); batch 2 is not constructed yet.
Constructed(b1) ==
    /\ batch = [b \in BatchIds |-> IF b = 1 THEN b1 ELSE WriteBatch0]
    /\ save_points_ = [b \in BatchIds |-> NULL]
    /\ heap = [a \in Addr |-> <<>>]
    /\ live = {}
    /\ alive = {1}
    /\ crashed = FALSE
    /\ pushed = [a \in Addr |-> <<>>]
    /\ last = Op("Construct", 1, "", 0, NoSavePoint, WriteBatch0)
    /\ steps = 0

BatchInit == \E b1 \in InitBatches : Constructed(b1)

\* ------------------------------------------------------------------------
\* Append operations
\* ------------------------------------------------------------------------

AppendOp(b, r) ==
    /\ Running(b)
    /\ Fits(b, Len(AppendRec(WriteBatch0, r).rep) - kHeader)
    /\ batch' = [batch EXCEPT ![b] = AppendRec(@, r)]
    /\ last' = Op(r.kind, b, "", 0, NoSavePoint, WriteBatch0)
    /\ UNCHANGED <<save_points_, heap, live, alive, crashed, pushed>>

Put(b, column_family_id, key, value) ==
    AppendOp(b, Rec("Put", column_family_id, key, value))

Delete(b, column_family_id, key) ==
    AppendOp(b, Rec("Delete", column_family_id, key, <<>>))

SingleDelete(b, column_family_id, key) ==
    AppendOp(b, Rec("SingleDelete", column_family_id, key, <<>>))

Merge(b, column_family_id, key, value) ==
    AppendOp(b, Rec("Merge", column_family_id, key, value))

PutLogData(b, blob) ==
    AppendOp(b, Rec("LogData", 0, <<>>, blob))

\* ------------------------------------------------------------------------
\* Clear, HasPut / HasDelete / HasSingleDelete / HasMerge
\* ------------------------------------------------------------------------

Clear(b) ==
    /\ Running(b)
    /\ batch' = [batch EXCEPT ![b] = ClearRep(@)]
    /\ IF save_points_[b] = NULL
       THEN UNCHANGED <<heap, pushed>>
       ELSE /\ heap' = [heap EXCEPT ![save_points_[b]] = <<>>]
            /\ pushed' = [pushed EXCEPT ![save_points_[b]] = <<>>]
    /\ last' = Op("Clear", b, "", 0, NoSavePoint, WriteBatch0)
    /\ UNCHANGED <<save_points_, live, alive, crashed>>

\* What HasPut (f = HAS_PUT), HasDelete, HasSingleDelete or HasMerge returns
\* on the batch value b.
Has(b, f) == HasBit(ComputeContentFlags(b).content_flags, f)

\* Any of the four queries: each stores what ComputeContentFlags computed.
HasQuery(b) ==
    /\ Running(b)
    /\ batch' = [batch EXCEPT ![b] = ComputeContentFlags(@)]
    /\ last' = Op("Has", b, "", 0, NoSavePoint, WriteBatch0)
    /\ UNCHANGED <<save_points_, heap, live, alive, crashed, pushed>>

\* ------------------------------------------------------------------------
\* Save-points
\* ------------------------------------------------------------------------

SetSavePoint(b) ==
    /\ Running(b)
    /\ Len(Stack(b)) < MaxSavePoints
    /\ IF save_points_[b] = NULL
       THEN \E a \in Addr \ live :
              /\ save_points_' = [save_points_ EXCEPT ![b] = a]
              /\ live' = live \cup {a}
              /\ heap' = [heap EXCEPT ![a] = <<SavePoint(batch[b])>>]
              /\ pushed' = [pushed EXCEPT ![a] = <<batch[b]>>]
       ELSE /\ heap' = [heap EXCEPT ![save_points_[b]] =
                                        Append(@, SavePoint(batch[b]))]
            /\ pushed' = [pushed EXCEPT ![save_points_[b]] =
                                        Append(@, batch[b])]
            /\ UNCHANGED <<save_points_, live>>
    /\ last' = Op("SetSavePoint", b, "", 0, NoSavePoint, WriteBatch0)
    /\ UNCHANGED <<batch, alive, crashed>>

\* What RollbackToSavePoint returns, for the pointer sp and the stack it
\* leads to.
RollbackStatus_OK(sp, stack) == OK

RollbackStatus(sp, stack) ==
    IF sp = NULL \/ Len(stack) = 0 THEN NotFound ELSE OK

RollbackToSavePoint(b) ==
    /\ Running(b)
    /\ IF save_points_[b] = NULL \/ Len(Stack(b)) = 0
       THEN /\ last' = Op("RollbackToSavePoint", b,
                          RollbackStatus(save_points_[b], Stack(b))[1], 0,
                          NoSavePoint, WriteBatch0)
            /\ UNCHANGED <<batch, heap, pushed>>
       ELSE LET a == save_points_[b]
                savepoint == heap[a][Len(heap[a])]
                snap == IF Len(pushed[a]) = Len(heap[a])
                        THEN pushed[a][Len(pushed[a])] ELSE batch[b]
            IN  /\ heap' = [heap EXCEPT ![a] = SubSeq(@, 1, Len(@) - 1)]
                /\ pushed' = [pushed EXCEPT ![a] =
                                 SubSeq(@, 1, Len(heap[a]) - 1)]
                /\ batch' = [batch EXCEPT ![b] = RollbackTo(@, savepoint)]
                /\ last' = Op("RollbackToSavePoint", b,
                              RollbackBranch(batch[b], savepoint),
                              Len(heap[a]), savepoint, snap)
    /\ UNCHANGED <<save_points_, live, alive, crashed>>

\* ------------------------------------------------------------------------
\* WriteBatchInternal::Append
\* ------------------------------------------------------------------------

AppendFrom(dst, src) ==
    /\ Running(dst)
    /\ Fits(dst, Len(src.rep) - kHeader)
    /\ batch' = [batch EXCEPT ![dst] = AppendBatch(@, src)]
    /\ last' = Op("Append", dst, "", 0, NoSavePoint, src)
    /\ UNCHANGED <<save_points_, heap, live, alive, crashed, pushed>>

\* ------------------------------------------------------------------------
\* WriteBatchInternal::SetContents
\* ------------------------------------------------------------------------

SetContents(b, contents) ==
    /\ Running(b)
    /\ Len(contents) >= kHeader
    /\ Len(contents) <= kHeader + MaxPayload
    /\ batch' = [batch EXCEPT ![b] = SetContentsRep(@, contents)]
    /\ last' = Op("SetContents", b, "", 0, NoSavePoint, WriteBatch0)
    /\ UNCHANGED <<save_points_, heap, live, alive, crashed, pushed>>

\* The assertions of RollbackToSavePoint on the popped save-point.
RollbackAsserts(b, savepoint) ==
    /\ savepoint.size <= Len(b.rep)
    /\ savepoint.count <= Count(b.rep)

\* RollbackToSavePoint in a build with assertions, when one of them fails:
\* the process aborts.  (RollbackToSavePoint above is the build without.)
RollbackAssertFails(b) ==
    /\ Running(b)
    /\ Len(Stack(b)) > 0
    /\ ~RollbackAsserts(batch[b], Stack(b)[Len(Stack(b))])
    /\ crashed' = TRUE
    /\ last' = Op("RollbackToSavePoint", b, "assert", 0, NoSavePoint,
                  WriteBatch0)
    /\ UNCHANGED <<batch, save_points_, heap, live, alive, pushed>>

\* ------------------------------------------------------------------------
\* Copy construction, copy assignment, destruction
\* ------------------------------------------------------------------------

\* WriteBatch(const WriteBatch& src): the new object dst takes src's buffer
\* and flag word, and src's save_points_ pointer itself.
CopyConstruct(dst, src) ==
    /\ ~crashed
    /\ src \in alive
    /\ dst \notin alive
    /\ batch' = [batch EXCEPT ![dst] = batch[src]]
    /\ save_points_' = [save_points_ EXCEPT ![dst] = save_points_[src]]
    /\ alive' = alive \cup {dst}
    /\ last' = Op("CopyConstruct", dst, "", 0, NoSavePoint, WriteBatch0)
    /\ UNCHANGED <<heap, live, crashed, pushed>>

\* `delete p` on a pointer that is null or allocated.  (Deleting a pointer
\* already deleted is DoubleDelete below.)
Deleted(p) == live \ {p}

\* ~WriteBatch(): delete save_points_.
Destroy(b) ==
    /\ Running(b)
    /\ save_points_[b] = NULL \/ save_points_[b] \in live
    /\ live' = Deleted(save_points_[b])
    /\ alive' = alive \ {b}
    /\ last' = Op("Destroy", b, "", 0, NoSavePoint, WriteBatch0)
    /\ UNCHANGED <<batch, save_points_, heap, crashed, pushed>>

\* operator=(const WriteBatch& src): this->~WriteBatch(), then the copy
\* constructor in place.  Self-assignment does nothing.
CopyAssign(dst, src) ==
    /\ Running(dst)
    /\ src \in alive
    /\ save_points_[dst] = NULL \/ save_points_[dst] \in live
    /\ IF dst = src
       THEN UNCHANGED <<batch, save_points_, live>>
       ELSE /\ live' = Deleted(save_points_[dst])
            /\ batch' = [batch EXCEPT ![dst] = batch[src]]
            /\ save_points_' = [save_points_ EXCEPT ![dst] = save_points_[src]]
    /\ last' = Op("CopyAssign", dst, "", 0, NoSavePoint, WriteBatch0)
    /\ UNCHANGED <<heap, alive, crashed, pushed>>

\* A batch whose save_points_ points to a deleted SavePoints.
Dangling(b) == save_points_[b] # NULL /\ save_points_[b] \notin live

\* Undefined behaviour: SetSavePoint, RollbackToSavePoint or Clear through a
\* dangling save_points_ may abort the process; when it does not, the
\* operation works on whatever the address holds (the actions above).
UseAfterFree(b) ==
    /\ Running(b)
    /\ Dangling(b)
    /\ crashed' = TRUE
    /\ last' = Op("UseAfterFree", b, "", 0, NoSavePoint, WriteBatch0)
    /\ UNCHANGED <<batch, save_points_, heap, live, alive, pushed>>

\* Undefined behaviour: the destructor (alone, or within a copy assignment)
\* deletes a save_points_ that is already deleted.  The process aborts, or
\* the object is destroyed and the allocator goes on.
DoubleDelete(b) ==
    /\ Running(b)
    /\ Dangling(b)
    /\ \/ crashed' = TRUE /\ UNCHANGED alive
       \/ crashed' = FALSE /\ alive' = alive \ {b}
    /\ last' = Op("Destroy", b, "double delete", 0, NoSavePoint, WriteBatch0)
    /\ UNCHANGED <<batch, save_points_, heap, live, pushed>>

\* ------------------------------------------------------------------------
\* WriteBatch::Iterate, one loop iteration at a time
\* ------------------------------------------------------------------------

\* No status: Iterate has not returned.
NotReturned == Status("", "")

\* Iterate's position (pc), its locals input, found and s, and the status
\* it returned.  History: the records dispatched, each with the status its
\* callback returned and the offset of the record in the buffer (log);
\* Continue() returned false (stopped); a record failed to decode
\* (undecoded); the records the buffer was written from (written).
NotIterating ==
    [pc |-> "idle", input |-> <<>>, found |-> 0, s |-> OK,
     ret |-> NotReturned, log |-> <<>>, stopped |-> FALSE,
     undecoded |-> FALSE, written |-> <<>>]

\* No MemTableInserter yet.  The inserter's fields, with what it works on:
\* the column families cf_mems_ finds (families), each family's memtable as
\* the entries added to it (mem), and the families handed to the flush
\* scheduler (scheduled).  concurrent_memtable_writes_ is false.
\* History: the return statement the last callback left by (returned_at)
\* and the log number it read from cf_mems_ (cf_log, 0 when it read none);
\* sequence_ at the entry of each callback (calls); the sequence numbers
\* passed to the memtables, in order (writes); what the last callback
\* called of db_->Get and db_->KeyMayExist, each with the number of its
\* snapshot (queries).
NoInserter ==
    [sequence_ |-> 0, ignore_missing_column_families_ |-> FALSE,
     log_number_ |-> 0, dont_filter_deletes_ |-> TRUE,
     flush_scheduler_ |-> FALSE, db_ |-> FALSE, families |-> {},
     mem |-> [cf \in ColumnFamilyIds |-> <<>>], scheduled |-> {},
     returned_at |-> "", cf_log |-> 0, calls |-> <<>>, writes |-> <<>>,
     queries |-> <<>>]

\* No InsertInto(writers, ...) yet.  Its argument writers (each writer's
\* batch, CallbackFailed() and status slot) and sequence, its position (pc,
\* the loop index i) and the status it returned.  History: the writers whose
\* batch Iterate was called on, in order (begun), and what each call
\* returned (results).
\* No thread runs beside the caller.
NoThreads == [t \in Threads |-> [pc |-> "none"]]

\* Every memtable as constructed, and nothing passed to ScheduleFlush.
NoMemtables ==
    [flush_state_ |-> [cf \in {0, 1} |-> "FLUSH_NOT_REQUESTED"],
     claimed |-> [cf \in {0, 1} |-> 0],
     scheduled |-> <<>>]

NoGroup ==
    [pc |-> "idle", i |-> 1, writers |-> <<>>, sequence |-> 0,
     ret |-> NotReturned, begun |-> <<>>, results |-> <<>>]

\* Iterate up to the loop.
IterateBegin(b) ==
    /\ Running(b)
    /\ it.pc = "idle"
    /\ it' = IF Len(batch[b].rep) < kHeader
             THEN [it EXCEPT !.pc = "done",
                             !.ret = Corruption("malformed WriteBatch (too small)")]
             ELSE [it EXCEPT !.pc = "loop", !.input = Payload(batch[b].rep)]
    /\ UNCHANGED batchVars

\* The loop condition before handler->Continue() is asked.
IterateLoopTest_IgnoreStatus(s, input) == input # <<>>

IterateLoopTest(s, input) == s = OK /\ input # <<>>

\* The statements after the loop.
IterateReturns(b, stopped) ==
    /\ it' = [it EXCEPT !.pc = "done",
                        !.ret = IterateReturn(it.s, it.found, Count(batch[b].rep)),
                        !.stopped = stopped]
    /\ UNCHANGED batchVars

\* The loop ends: a callback returned a non-OK status, or no input is left.
IterateLoopEnds(b) ==
    /\ Running(b)
    /\ it.pc = "loop"
    /\ ~IterateLoopTest(it.s, it.input)
    /\ IterateReturns(b, FALSE)

\* The loop ends: handler->Continue() returns false.
IterateStops(b) ==
    /\ Running(b)
    /\ it.pc = "loop"
    /\ IterateLoopTest(it.s, it.input)
    /\ IterateReturns(b, TRUE)

\* handler->Continue() has returned true.
InLoopBody(b) ==
    /\ Running(b)
    /\ it.pc = "loop"
    /\ IterateLoopTest(it.s, it.input)

\* The loop body when ReadRecordFromWriteBatch fails: return s.
IterateBadRecord(b) ==
    /\ InLoopBody(b)
    /\ ReadRecordFromWriteBatch(it.input).s # OK
    /\ it' = [it EXCEPT !.pc = "done",
                        !.ret = ReadRecordFromWriteBatch(it.input).s,
                        !.undecoded = TRUE]
    /\ UNCHANGED batchVars

\* The loop body has read a record.
Dispatching(b) ==
    /\ InLoopBody(b)
    /\ ReadRecordFromWriteBatch(it.input).s = OK

\* The assertion before the callback of a record with this tag.
IterateAsserts(content_flags, tag) ==
    \/ tag = kTypeLogData
    \/ HasBit(content_flags, DEFERRED)
    \/ HasBit(content_flags, KindFlag(TagKind(tag)))

\* The loop body in a build with assertions, when the assertion fails: the
\* process aborts.  (The dispatching actions are the build without.)
IterateAssertFails(b) ==
    /\ Dispatching(b)
    /\ ~IterateAsserts(batch[b].content_flags, Head(it.input))
    /\ crashed' = TRUE
    /\ last' = Op("Iterate", b, "assert", 0, NoSavePoint, WriteBatch0)
    /\ UNCHANGED <<batch, save_points_, heap, live, alive, pushed, it>>

\* Iterate's state after the switch: the record r was read and its callback
\* returned cs (LogData returns nothing, and is not counted).
Dispatch_CountLog(b, r, cs) ==
    [it EXCEPT !.input = r.input,
               !.found = @ + 1,
               !.s = IF r.tag = kTypeLogData THEN @ ELSE cs,
               !.log = Append(@, [rec |-> Dispatched(r),
                                  s |-> IF r.tag = kTypeLogData THEN OK ELSE cs,
                                  at |-> Len(batch[b].rep) - Len(it.input)])]

Dispatch(b, r, cs) ==
    [it EXCEPT !.input = r.input,
               !.found = IF r.tag = kTypeLogData THEN @ ELSE @ + 1,
               !.s = IF r.tag = kTypeLogData THEN @ ELSE cs,
               !.log = Append(@, [rec |-> Dispatched(r),
                                  s |-> IF r.tag = kTypeLogData THEN OK ELSE cs,
                                  at |-> Len(batch[b].rep) - Len(it.input)])]

\* ------------------------------------------------------------------------
\* Iterate with any visitor: Continue() and the callbacks return what they
\* like
\* ------------------------------------------------------------------------

CallbackStatuses == {OK, NotFound, InvalidArgument("visitor")}

\* The loop body: read a record, call its callback.
Visit(b) ==
    /\ Dispatching(b)
    /\ \E cs \in CallbackStatuses :
          it' = Dispatch(b, ReadRecordFromWriteBatch(it.input), cs)
    /\ UNCHANGED batchVars

\* The records of the buffers Iterate is given.
IterRecords ==
    { Rec("Put", 0, <<97>>, <<98>>), Rec("Delete", 1, <<97>>, <<>>),
      Rec("Merge", 0, <<97>>, <<98>>), Rec("LogData", 0, <<>>, <<120>>) }

RecordLists(S) == UNION {[1..n -> S] : n \in 0..MaxRecords}

RECURSIVE AppendAll(_, _)
AppendAll(b, recs) ==
    IF recs = <<>> THEN b
    ELSE AppendAll(AppendRec(b, Head(recs)), Tail(recs))

\* The serialized batch of the records recs, with sequence number 7.
Encoded(recs) == SetSequence(AppendAll(WriteBatch0, recs).rep, 7)

\* What follows the last whole record: nothing, a Put cut after its key
\* length, an unknown tag.
Junk == {<<>>, <<kTypeValue, 1>>, <<9>>}

\* The batch RollbackToSavePoint leaves when SetContents replaced the
\* buffer after the save-point was pushed: the Merge that begins the new
\* contents, under the flag word of the Put saved.
StaleBatch ==
    RollbackTo(SetContentsRep(PutRec(WriteBatch0, 0, <<97>>, <<98>>),
                              Encoded(<<Rec("Merge", 0, <<97>>, <<98>>),
                                        Rec("Delete", 0, <<97>>, <<>>)>>)),
               SavePoint(PutRec(WriteBatch0, 0, <<97>>, <<98>>)))

\* Iterate is given a batch constructed from a string: records written one
\* after the other, any count in the header, possibly junk at the end; or a
\* string shorter than a header; or the stale batch.
InitIter ==
    /\ \/ \E recs \in RecordLists(IterRecords), n \in 0..(MaxRecords + 1),
             j \in Junk :
             /\ Constructed(WriteBatchFromRep(SetCount(Encoded(recs), n) \o j))
             /\ it = [NotIterating EXCEPT !.written = recs]
       \/ /\ Constructed(WriteBatchFromRep(<<>>))
          /\ it = NotIterating
       \/ /\ Constructed(StaleBatch)
          /\ it = [NotIterating EXCEPT
                     !.written = <<Rec("Merge", 0, <<97>>, <<98>>)>>]
    /\ ins = NoInserter
    /\ grp = NoGroup
    /\ threads = NoThreads
    /\ memtables = NoMemtables

\* Nothing but Iterate runs.
OnlyIterate == UNCHANGED <<steps, ins, grp, threads, memtables>>

NextIter ==
    \/ OnlyIterate /\ IterateBegin(1)
    \/ OnlyIterate /\ Visit(1)
    \/ OnlyIterate /\ IterateBadRecord(1)
    \/ OnlyIterate /\ IterateStops(1)
    \/ OnlyIterate /\ IterateLoopEnds(1)
    \/ OnlyIterate /\ IterateAssertFails(1)

SpecIter == InitIter /\ [][NextIter]_vars

\* ------------------------------------------------------------------------
\* A new batch is written with Put, Delete, SingleDelete, Merge and
\* PutLogData, and then given to Iterate
\* ------------------------------------------------------------------------

\* The call that appends r, before any Iterate; r is noted as written.
Writing(r) ==
    /\ it.pc = "idle"
    /\ it' = [it EXCEPT !.written = Append(@, r)]
    /\ UNCHANGED <<steps, ins, grp, threads, memtables>>

InitWritten ==
    /\ Constructed(WriteBatch0)
    /\ it = NotIterating
    /\ ins = NoInserter
    /\ grp = NoGroup
    /\ threads = NoThreads
    /\ memtables = NoMemtables

NextWritten ==
    \/ \E cf \in ColumnFamilyIds, k \in Keys, v \in Values :
          Writing(Rec("Put", cf, k, v)) /\ Put(1, cf, k, v)
    \/ \E cf \in ColumnFamilyIds, k \in Keys :
          Writing(Rec("Delete", cf, k, <<>>)) /\ Delete(1, cf, k)
    \/ \E cf \in ColumnFamilyIds, k \in Keys :
          Writing(Rec("SingleDelete", cf, k, <<>>)) /\ SingleDelete(1, cf, k)
    \/ \E cf \in ColumnFamilyIds, k \in Keys, v \in Values :
          Writing(Rec("Merge", cf, k, v)) /\ Merge(1, cf, k, v)
    \/ \E bl \in Blobs : Writing(Rec("LogData", 0, <<>>, bl)) /\ PutLogData(1, bl)
    \/ OnlyIterate /\ IterateBegin(1)
    \/ OnlyIterate /\ Visit(1)
    \/ OnlyIterate /\ IterateStops(1)
    \/ OnlyIterate /\ IterateLoopEnds(1)

SpecWritten == InitWritten /\ [][NextWritten]_vars

\* ------------------------------------------------------------------------
\* MemTableInserter: the visitor that applies a batch to the memtables
\* ------------------------------------------------------------------------

\* The arguments of InsertInto: the default column family always exists,
\* and db is not null (the constructor asserts it when deletes are
\* filtered).
Inserters ==
    { [NoInserter EXCEPT !.ignore_missing_column_families_ = ig,
                         !.log_number_ = ln,
                         !.dont_filter_deletes_ = dd,
                         !.db_ = TRUE,
                         !.flush_scheduler_ = fs,
                         !.families = fam] :
        ig \in BOOLEAN, ln \in {0, 2}, fs \in BOOLEAN,
        fam \in {{0}, {0, 1}}, dd \in BOOLEAN }

\* cf_mems_->GetLogNumber()
LogNumbers == {1, 3}

\* SeekToColumnFamily that takes no notice of
\* ignore_missing_column_families_.
SeekToColumnFamily_NoFlag(i, column_family_id, cf_log) ==
    IF column_family_id \notin i.families
    THEN [found |-> FALSE, s |-> OK]
    ELSE [found |-> ~(i.log_number_ # 0 /\ i.log_number_ < cf_log), s |-> OK]

\* SeekToColumnFamily that compares the log numbers also when log_number_
\* is 0.
SeekToColumnFamily_AnyLog(i, column_family_id, cf_log) ==
    IF column_family_id \notin i.families
    THEN [found |-> FALSE,
          s |-> IF i.ignore_missing_column_families_
                THEN OK
                ELSE InvalidArgument(
                       "Invalid column family specified in write batch")]
    ELSE [found |-> ~(i.log_number_ < cf_log), s |-> OK]

\* cf_log is what cf_mems_->GetLogNumber() returns.
SeekToColumnFamily(i, column_family_id, cf_log) ==
    IF column_family_id \notin i.families
    THEN [found |-> FALSE,
          s |-> IF i.ignore_missing_column_families_
                THEN OK
                ELSE InvalidArgument(
                       "Invalid column family specified in write batch")]
    ELSE IF i.log_number_ # 0 /\ i.log_number_ < cf_log
    THEN [found |-> FALSE, s |-> OK]
    ELSE [found |-> TRUE, s |-> OK]

\* MemTable::Add, Update and UpdateCallback (db/memtable.h, not part of this
\* file): the memtable as the list of what was written to it.
MemWrite(i, cf, how, type, key, value) ==
    [i EXCEPT !.mem[cf] = Append(@, [how |-> how, seq |-> i.sequence_,
                                     type |-> type, key |-> key,
                                     value |-> value]),
              !.writes = Append(@, i.sequence_)]

\* db_->Get and db_->KeyMayExist (db/db.h, not part of this file), on a
\* snapshot whose number_ is sequence_.
DbQuery(i, call) ==
    [i EXCEPT !.queries = Append(@, [call |-> call, snapshot |-> i.sequence_])]

\* flush is what ShouldScheduleFlush() && MarkFlushScheduled() yields.
CheckMemtableFull(i, cf, flush) ==
    IF i.flush_scheduler_ /\ flush
    THEN [i EXCEPT !.scheduled = @ \cup {cf}]
    ELSE i

\* What a callback returns, with the inserter as it leaves it; at names the
\* return statement.
Returned(i, s, at) == [ins |-> [i EXCEPT !.returned_at = at], s |-> s]

\* ++sequence_
Bumped_Same(i) == i

Bumped(i) == [i EXCEPT !.sequence_ = @ + 1]

\* The values an inplace_callback leaves in prev_buffer and merged_value,
\* and the one FullMerge leaves in new_value.
PrevValue == <<112>>
MergedValue == <<109>>
NewValue == <<110>>

\* What PutCF, DeleteImpl and MergeCF read from outside the batch: the
\* family's log number, the memtable's options, and what the memtable, the
\* database, the callbacks and the merge operator answer.  An option or
\* an answer the callback cannot come to read has one value.
PutInputs ==
    { in \in [cf_log : LogNumbers, inplace_update_support : BOOLEAN,
              inplace_callback : BOOLEAN, update_callback : BOOLEAN,
              status : {"UPDATED_INPLACE", "UPDATED", "UPDATE_FAILED"},
              flush : BOOLEAN] :
        /\ ~in.inplace_update_support => ~in.inplace_callback
        /\ ~in.inplace_callback => ~in.update_callback
        /\ (~in.inplace_callback \/ in.update_callback)
              => in.status = "UPDATE_FAILED" }

DeleteInputs ==
    { in \in [cf_log : LogNumbers, filter_deletes : BOOLEAN,
              key_may_exist : BOOLEAN, flush : BOOLEAN] :
        ~in.filter_deletes => in.key_may_exist }

MergeInputs ==
    { in \in [cf_log : LogNumbers, max_successive_merges : {0, 1},
              num_merges : {0, 1}, merge_success : BOOLEAN,
              flush : BOOLEAN] :
        /\ in.max_successive_merges = 0 => in.num_merges = 0
        /\ in.num_merges < in.max_successive_merges \/ in.num_merges = 0
              => ~in.merge_success }

\* PutCF once the column family is found, where the value is added whatever
\* inplace_callback reports.
PutCFWrite_AnyStatus(i, cf, key, value, in) ==
    IF ~in.inplace_update_support
    THEN MemWrite(i, cf, "Add", kTypeValue, key, value)
    ELSE IF ~in.inplace_callback
    THEN MemWrite(i, cf, "Update", kTypeValue, key, value)
    ELSE IF in.update_callback
    THEN MemWrite(i, cf, "UpdateCallback", kTypeValue, key, value)
    ELSE IF in.status = "UPDATED_INPLACE"
    THEN MemWrite(DbQuery(i, "Get"), cf, "Add", kTypeValue, key, PrevValue)
    ELSE MemWrite(DbQuery(i, "Get"), cf, "Add", kTypeValue, key, MergedValue)

\* PutCF once the column family is found: the write to the memtable.
PutCFWrite(i, cf, key, value, in) ==
    IF ~in.inplace_update_support
    THEN MemWrite(i, cf, "Add", kTypeValue, key, value)
    ELSE IF ~in.inplace_callback
    THEN MemWrite(i, cf, "Update", kTypeValue, key, value)
    ELSE IF in.update_callback
    THEN MemWrite(i, cf, "UpdateCallback", kTypeValue, key, value)
    ELSE IF in.status = "UPDATED_INPLACE"
    THEN MemWrite(DbQuery(i, "Get"), cf, "Add", kTypeValue, key, PrevValue)
    ELSE IF in.status = "UPDATED"
    THEN MemWrite(DbQuery(i, "Get"), cf, "Add", kTypeValue, key, MergedValue)
    ELSE DbQuery(i, "Get")

\* PutCF after SeekToColumnFamily has answered seek.
PutCFAfterSeek(i, cf, key, value, in, seek) ==
    IF ~seek.found
    THEN Returned(Bumped(i), seek.s, "seek_status")
    ELSE Returned(CheckMemtableFull(Bumped(PutCFWrite(i, cf, key, value, in)),
                                    cf, in.flush),
                  OK, "end")

PutCF(i, column_family_id, key, value, in) ==
    PutCFAfterSeek(i, column_family_id, key, value, in,
                   SeekToColumnFamily(i, column_family_id, in.cf_log))

\* if (!dont_filter_deletes_ && moptions->filter_deletes) { ...
\* db_->KeyMayExist(...) }, where the database is asked whenever the
\* memtable filters deletes.
DeleteImplQuery_Always(i, in) ==
    IF in.filter_deletes THEN DbQuery(i, "KeyMayExist") ELSE i

\* if (!dont_filter_deletes_ && moptions->filter_deletes) { ...
\* db_->KeyMayExist(...) }
DeleteImplQuery(i, in) ==
    IF ~i.dont_filter_deletes_ /\ in.filter_deletes
    THEN DbQuery(i, "KeyMayExist")
    ELSE i

\* DeleteImpl after SeekToColumnFamily has answered seek.
DeleteImplAfterSeek(i, cf, key, delete_type, in, seek) ==
    IF ~seek.found
    THEN Returned(Bumped(i), seek.s, "seek_status")
    ELSE IF ~i.dont_filter_deletes_ /\ in.filter_deletes /\ ~in.key_may_exist
    THEN Returned(DbQuery(i, "KeyMayExist"), OK, "filtered")
    ELSE Returned(CheckMemtableFull(
                    Bumped(MemWrite(DeleteImplQuery(i, in), cf, "Add",
                                    delete_type, key, <<>>)),
                    cf, in.flush),
                  OK, "end")

DeleteImpl(i, column_family_id, key, delete_type, in) ==
    DeleteImplAfterSeek(i, column_family_id, key, delete_type, in,
                        SeekToColumnFamily(i, column_family_id, in.cf_log))

DeleteCF(i, column_family_id, key, in) ==
    DeleteImpl(i, column_family_id, key, kTypeDeletion, in)

SingleDeleteCF(i, column_family_id, key, in) ==
    DeleteImpl(i, column_family_id, key, kTypeSingleDeletion, in)

\* MergeCF's first test: the merge is folded into the stored value.
PerformMerge(i, in) ==
    /\ in.max_successive_merges > 0
    /\ i.db_
    /\ in.num_merges >= in.max_successive_merges

\* if (perform_merge) { ... }, where a failed FullMerge leaves perform_merge
\* set.
MergeCFFold_KeepFlag(i, cf, key, in) ==
    IF ~PerformMerge(i, in)
    THEN [i |-> i, perform_merge |-> FALSE]
    ELSE IF ~in.merge_success
    THEN [i |-> DbQuery(i, "Get"), perform_merge |-> TRUE]
    ELSE [i |-> MemWrite(DbQuery(i, "Get"), cf, "Add", kTypeValue, key,
                         NewValue),
          perform_merge |-> TRUE]

\* if (perform_merge) { ... }: the inserter and perform_merge after it.
MergeCFFold(i, cf, key, in) ==
    IF ~PerformMerge(i, in)
    THEN [i |-> i, perform_merge |-> FALSE]
    ELSE IF ~in.merge_success
    THEN [i |-> DbQuery(i, "Get"), perform_merge |-> FALSE]
    ELSE [i |-> MemWrite(DbQuery(i, "Get"), cf, "Add", kTypeValue, key,
                         NewValue),
          perform_merge |-> TRUE]

\* if (!perform_merge) { mem->Add(sequence_, kTypeMerge, key, value); }
MergeCFAdd(fold, cf, key, value) ==
    IF ~fold.perform_merge
    THEN MemWrite(fold.i, cf, "Add", kTypeMerge, key, value)
    ELSE fold.i

\* MergeCF once the column family is found: the writes to the memtable.
MergeCFWrite(i, cf, key, value, in) ==
    MergeCFAdd(MergeCFFold(i, cf, key, in), cf, key, value)

\* MergeCF after SeekToColumnFamily has answered seek.
MergeCFAfterSeek(i, cf, key, value, in, seek) ==
    IF ~seek.found
    THEN Returned(Bumped(i), seek.s, "seek_status")
    ELSE Returned(CheckMemtableFull(Bumped(MergeCFWrite(i, cf, key, value, in)),
                                    cf, in.flush),
                  OK, "end")

MergeCF(i, column_family_id, key, value, in) ==
    MergeCFAfterSeek(i, column_family_id, key, value, in,
                     SeekToColumnFamily(i, column_family_id, in.cf_log))

\* ------------------------------------------------------------------------
\* WriteBatchInternal::InsertInto(batch, ...): Iterate with a
\* MemTableInserter.  The inserter keeps Handler::Continue(), which returns
\* true.
\* ------------------------------------------------------------------------

\* The inserter is constructed on the batch's sequence number, and Iterate
\* begins.
InsertInto(b) ==
    /\ IterateBegin(b)
    /\ ins' = [ins EXCEPT !.sequence_ = Sequence(batch[b].rep)]

\* The log number SeekToColumnFamily reads for the record r: it asks
\* cf_mems_->GetLogNumber() once the family is found and log_number_ is not 0.
LogNumberRead(i, r, cf_log) ==
    IF r.column_family \in i.families /\ i.log_number_ # 0 THEN cf_log ELSE 0

\* The inserter as a callback is entered.
Entered(i) == [i EXCEPT !.queries = <<>>]

\* The loop body has read the record r, and its callback has returned res
\* after reading the log number cf_log.
Handled(b, r, res, cf_log) ==
    /\ it' = Dispatch(b, r, res.s)
    /\ ins' = [res.ins EXCEPT !.cf_log = cf_log,
                              !.calls = IF r.tag = kTypeLogData THEN @
                                        ELSE Append(@, ins.sequence_)]
    /\ UNCHANGED batchVars

HandlePut(b, r, in) ==
    Handled(b, r, PutCF(Entered(ins), r.column_family, r.key, r.value, in),
            LogNumberRead(ins, r, in.cf_log))

HandleDelete(b, r, in) ==
    Handled(b, r, DeleteCF(Entered(ins), r.column_family, r.key, in),
            LogNumberRead(ins, r, in.cf_log))

HandleSingleDelete(b, r, in) ==
    Handled(b, r, SingleDeleteCF(Entered(ins), r.column_family, r.key, in),
            LogNumberRead(ins, r, in.cf_log))

HandleMerge(b, r, in) ==
    Handled(b, r, MergeCF(Entered(ins), r.column_family, r.key, r.value, in),
            LogNumberRead(ins, r, in.cf_log))

\* The loop body, by the kind of the record read.
InsertPut(b) ==
    /\ Dispatching(b)
    /\ TagKind(Head(it.input)) = "Put"
    /\ \E in \in PutInputs :
          HandlePut(b, ReadRecordFromWriteBatch(it.input), in)

InsertDelete(b) ==
    /\ Dispatching(b)
    /\ TagKind(Head(it.input)) = "Delete"
    /\ \E in \in DeleteInputs :
          HandleDelete(b, ReadRecordFromWriteBatch(it.input), in)

InsertSingleDelete(b) ==
    /\ Dispatching(b)
    /\ TagKind(Head(it.input)) = "SingleDelete"
    /\ \E in \in DeleteInputs :
          HandleSingleDelete(b, ReadRecordFromWriteBatch(it.input), in)

InsertMerge(b) ==
    /\ Dispatching(b)
    /\ TagKind(Head(it.input)) = "Merge"
    /\ \E in \in MergeInputs :
          HandleMerge(b, ReadRecordFromWriteBatch(it.input), in)

\* Handler::LogData does nothing.
InsertLogData(b) ==
    /\ Dispatching(b)
    /\ TagKind(Head(it.input)) = "LogData"
    /\ Handled(b, ReadRecordFromWriteBatch(it.input),
               Returned(ins, OK, "LogData"), 0)

\* The records of the batches applied.
ApplyRecords ==
    { Rec("Put", 0, <<97>>, <<98>>), Rec("Put", 1, <<97>>, <<98>>),
      Rec("Delete", 0, <<97>>, <<>>), Rec("SingleDelete", 1, <<97>>, <<>>),
      Rec("Merge", 1, <<97>>, <<98>>), Rec("LogData", 0, <<>>, <<120>>) }

\* InsertInto is given a batch read from a log, its flag word DEFERRED (so
\* that Iterate's assertions hold): well-formed, or ending in an unknown
\* tag.
InitApply ==
    /\ \E recs \in RecordLists(ApplyRecords), j \in {<<>>, <<9>>} :
          /\ j # <<>> => recs = <<>>
          /\ Constructed(WriteBatchFromRep(Encoded(recs) \o j))
          /\ it = [NotIterating EXCEPT !.written = recs]
    /\ ins \in Inserters
    /\ grp = NoGroup
    /\ threads = NoThreads
    /\ memtables = NoMemtables

\* Nothing but InsertInto(batch, ...) runs.
OnlyApply == UNCHANGED <<steps, grp, threads, memtables>>

NextApply ==
    \/ OnlyApply /\ InsertInto(1)
    \/ OnlyApply /\ InsertPut(1)
    \/ OnlyApply /\ InsertDelete(1)
    \/ OnlyApply /\ InsertSingleDelete(1)
    \/ OnlyApply /\ InsertMerge(1)
    \/ OnlyApply /\ InsertLogData(1)
    \/ OnlyApply /\ UNCHANGED ins /\ IterateBadRecord(1)
    \/ OnlyApply /\ UNCHANGED ins /\ IterateLoopEnds(1)

SpecApply == InitApply /\ [][NextApply]_vars

\* ------------------------------------------------------------------------
\* InsertInto(batch, ...) on a batch of one kind of record, where the
\* memtable's options and what the memtable, the database, the callbacks and
\* the merge operator answer are fixed for the run
\* ------------------------------------------------------------------------

\* The options and answers no callback of the run reads.
DefaultInput ==
    [cf_log |-> 1, flush |-> FALSE,
     inplace_update_support |-> FALSE, inplace_callback |-> FALSE,
     update_callback |-> FALSE, status |-> "UPDATE_FAILED",
     filter_deletes |-> FALSE, key_may_exist |-> TRUE,
     max_successive_merges |-> 0, num_merges |-> 0, merge_success |-> FALSE]

\* The options and answers the callback of a record of this kind may read.
InputsOf(kind) ==
    CASE kind = "Put" -> {in @@ DefaultInput : in \in PutInputs}
      [] kind \in {"Delete", "SingleDelete"} ->
            {in @@ DefaultInput : in \in DeleteInputs}
      [] kind = "Merge" -> {in @@ DefaultInput : in \in MergeInputs}

\* A batch read from a log that holds one record, once or more.  db is null
\* only where no callback of the run calls it.
InitCallbacks ==
    /\ \E r \in ApplyRecords \ {Rec("LogData", 0, <<>>, <<120>>)},
          n \in 1..MaxRecords :
          /\ Constructed(WriteBatchFromRep(Encoded([k \in 1..n |-> r])))
          /\ it = [NotIterating EXCEPT !.written = [k \in 1..n |-> r]]
          /\ \E in \in InputsOf(r.kind) :
                memtables = [flush_state_ |-> NoMemtables.flush_state_,
                             claimed |-> NoMemtables.claimed,
                             scheduled |-> <<>>,
                             answers |-> in]
          /\ \E i \in Inserters, db \in BOOLEAN :
                /\ ~db => r.kind = "Merge"
                /\ ins = [i EXCEPT !.db_ = db]
    /\ grp = NoGroup
    /\ threads = NoThreads

\* The loop body on a record of this kind, under the answers of the run.
Answered(b, kind) ==
    /\ Dispatching(b)
    /\ TagKind(Head(it.input)) = kind

NextCallbacks ==
    \/ OnlyApply /\ InsertInto(1)
    \/ /\ OnlyApply
       /\ Answered(1, "Put")
       /\ HandlePut(1, ReadRecordFromWriteBatch(it.input), memtables.answers)
    \/ /\ OnlyApply
       /\ Answered(1, "Delete")
       /\ HandleDelete(1, ReadRecordFromWriteBatch(it.input), memtables.answers)
    \/ /\ OnlyApply
       /\ Answered(1, "SingleDelete")
       /\ HandleSingleDelete(1, ReadRecordFromWriteBatch(it.input),
                             memtables.answers)
    \/ /\ OnlyApply
       /\ Answered(1, "Merge")
       /\ HandleMerge(1, ReadRecordFromWriteBatch(it.input), memtables.answers)
    \/ OnlyApply /\ UNCHANGED ins /\ IterateLoopEnds(1)

SpecCallbacks == InitCallbacks /\ [][NextCallbacks]_vars

\* A new batch is written with Put, Delete, SingleDelete, Merge and
\* PutLogData, and then given to InsertInto(batch, ...).
InitWrittenApply ==
    /\ Constructed(WriteBatch0)
    /\ it = NotIterating
    /\ ins \in Inserters
    /\ grp = NoGroup
    /\ threads = NoThreads
    /\ memtables = NoMemtables

NextWrittenApply ==
    \/ \E cf \in ColumnFamilyIds, k \in Keys, v \in Values :
          Writing(Rec("Put", cf, k, v)) /\ Put(1, cf, k, v)
    \/ \E cf \in ColumnFamilyIds, k \in Keys :
          Writing(Rec("Delete", cf, k, <<>>)) /\ Delete(1, cf, k)
    \/ \E cf \in ColumnFamilyIds, k \in Keys :
          Writing(Rec("SingleDelete", cf, k, <<>>)) /\ SingleDelete(1, cf, k)
    \/ \E cf \in ColumnFamilyIds, k \in Keys, v \in Values :
          Writing(Rec("Merge", cf, k, v)) /\ Merge(1, cf, k, v)
    \/ \E bl \in Blobs : Writing(Rec("LogData", 0, <<>>, bl)) /\ PutLogData(1, bl)
    \/ OnlyApply /\ InsertInto(1)
    \/ OnlyApply /\ InsertPut(1)
    \/ OnlyApply /\ InsertDelete(1)
    \/ OnlyApply /\ InsertSingleDelete(1)
    \/ OnlyApply /\ InsertMerge(1)
    \/ OnlyApply /\ InsertLogData(1)
    \/ OnlyApply /\ UNCHANGED ins /\ IterateLoopEnds(1)

SpecWrittenApply == InitWrittenApply /\ [][NextWrittenApply]_vars

\* ------------------------------------------------------------------------
\* WriteBatchInternal::InsertInto(writers, sequence, ...): the batches of a
\* write group, one after the other, with one MemTableInserter; and
\* InsertInto(batch, ...) on one batch by itself
\* ------------------------------------------------------------------------

\* The sequence argument; the batches' headers hold 7.
GroupSequence == 20

\* The batches of the writers: empty, records of every kind, and one that
\* ends in an unknown tag.
GroupBatches ==
    { Encoded(<<>>),
      Encoded(<<Rec("Put", 0, <<97>>, <<98>>), Rec("Delete", 1, <<97>>, <<>>)>>),
      Encoded(<<Rec("LogData", 0, <<>>, <<120>>),
                Rec("Merge", 1, <<97>>, <<98>>)>>),
      Encoded(<<Rec("SingleDelete", 0, <<97>>, <<>>)>>),
      Encoded(<<>>) \o <<9>> }

\* The writer lists: every batch object belongs to at most one writer.
WriterLists ==
    { w \in UNION {[1..n -> [batch : BatchIds, callback_failed : BOOLEAN,
                             status : {NotReturned}]] :
                     n \in 0..Cardinality(BatchIds)} :
        \A j \in 1..Len(w), k \in 1..Len(w) :
            j # k => w[j].batch # w[k].batch }

\* The inserters of a write: no recovery, a flush scheduler.
GroupInserters ==
    { i \in Inserters : i.log_number_ = 0 /\ i.flush_scheduler_ }

InitGroup ==
    /\ \E r1 \in GroupBatches, r2 \in GroupBatches :
          batch = [b \in BatchIds |->
                     WriteBatchFromRep(IF b = 1 THEN r1 ELSE r2)]
    /\ save_points_ = [b \in BatchIds |-> NULL]
    /\ heap = [a \in Addr |-> <<>>]
    /\ live = {}
    /\ alive = BatchIds
    /\ crashed = FALSE
    /\ pushed = [a \in Addr |-> <<>>]
    /\ last = Op("Construct", 1, "", 0, NoSavePoint, WriteBatch0)
    /\ steps = 0
    /\ it = NotIterating
    /\ ins \in GroupInserters
    /\ \E w \in WriterLists :
          grp = [NoGroup EXCEPT !.writers = w, !.sequence = GroupSequence]
    /\ threads = NoThreads
    /\ memtables = NoMemtables

\* The inserter is constructed on the sequence argument.
GroupInsertInto ==
    /\ ~crashed
    /\ grp.pc = "idle"
    /\ it.pc = "idle"
    /\ ins' = [ins EXCEPT !.sequence_ = grp.sequence]
    /\ grp' = [grp EXCEPT !.pc = "loop", !.i = 1]
    /\ UNCHANGED <<batchVars, it>>

\* The loop is at a writer.
AtWriter ==
    /\ ~crashed
    /\ grp.pc = "loop"
    /\ grp.i <= Len(grp.writers)

\* writers[i]->CallbackFailed(): on to the next writer.
GroupSkip ==
    /\ AtWriter
    /\ grp.writers[grp.i].callback_failed
    /\ grp' = [grp EXCEPT !.i = @ + 1]
    /\ UNCHANGED <<batchVars, it, ins>>

\* writers[i]->batch->Iterate(&inserter) is called.
GroupIterate ==
    /\ AtWriter
    /\ ~grp.writers[grp.i].callback_failed
    /\ IterateBegin(grp.writers[grp.i].batch)
    /\ grp' = [grp EXCEPT !.pc = "iterating", !.begun = Append(@, grp.i)]
    /\ UNCHANGED ins

\* Iterate has returned s on writer i: the assignment to the status slot.
StatusWritten(g, s) ==
    [g EXCEPT !.writers[g.i].status = s, !.results = Append(@, s)]

\* The loop after the status is written: return it, or on to the next
\* writer.
GroupAfterStatus_GoOn(g, s) == [g EXCEPT !.pc = "loop", !.i = @ + 1]

GroupAfterStatus(g, s) ==
    IF s # OK
    THEN [g EXCEPT !.pc = "done", !.ret = s]
    ELSE [g EXCEPT !.pc = "loop", !.i = @ + 1]

\* Iterate has returned; its locals are gone.  (written is kept.)
GroupIterateReturned ==
    /\ ~crashed
    /\ grp.pc = "iterating"
    /\ it.pc = "done"
    /\ grp' = GroupAfterStatus(StatusWritten(grp, it.ret), it.ret)
    /\ it' = NotIterating
    /\ UNCHANGED <<batchVars, ins>>

\* No writer is left: return Status::OK().
GroupReturnsOK ==
    /\ ~crashed
    /\ grp.pc = "loop"
    /\ grp.i > Len(grp.writers)
    /\ grp' = [grp EXCEPT !.pc = "done", !.ret = OK]
    /\ UNCHANGED <<batchVars, it, ins>>

\* InsertInto(batch, ...) on the first batch, outside a write group.
SingleInsertInto ==
    /\ grp.pc = "idle"
    /\ InsertInto(1)
    /\ UNCHANGED grp

\* Iterate is running on the batch b: the batch of writer i, or the batch of
\* InsertInto(batch, ...).
Iterating(b) ==
    /\ \/ grp.pc = "iterating" /\ b = grp.writers[grp.i].batch
       \/ grp.pc = "idle" /\ b = 1
    /\ UNCHANGED <<steps, grp, threads, memtables>>

\* Nothing but InsertInto runs.
OnlyGroup == UNCHANGED <<steps, threads, memtables>>

NextGroup ==
    \/ OnlyGroup /\ GroupInsertInto
    \/ OnlyGroup /\ SingleInsertInto
    \/ OnlyGroup /\ GroupSkip
    \/ OnlyGroup /\ GroupIterate
    \/ OnlyGroup /\ GroupIterateReturned
    \/ OnlyGroup /\ GroupReturnsOK
    \/ \E b \in BatchIds : Iterating(b) /\ InsertPut(b)
    \/ \E b \in BatchIds : Iterating(b) /\ InsertDelete(b)
    \/ \E b \in BatchIds : Iterating(b) /\ InsertSingleDelete(b)
    \/ \E b \in BatchIds : Iterating(b) /\ InsertMerge(b)
    \/ \E b \in BatchIds : Iterating(b) /\ InsertLogData(b)
    \/ \E b \in BatchIds : Iterating(b) /\ UNCHANGED ins /\ IterateBadRecord(b)
    \/ \E b \in BatchIds : Iterating(b) /\ UNCHANGED ins /\ IterateLoopEnds(b)

SpecGroup == InitGroup /\ [][NextGroup]_vars

\* ------------------------------------------------------------------------
\* MemTableInserter::CheckMemtableFull under concurrent appliers: every
\* thread applies records with an inserter of its own to the memtables all
\* of them share
\* ------------------------------------------------------------------------

\* MemTable::ShouldScheduleFlush() (memtable.h, not in this file): the
\* relaxed load of flush_state_.
ShouldScheduleFlush(flush_state) == flush_state = "FLUSH_REQUESTED"

\* MemTable::MarkFlushScheduled() (memtable.h, not in this file): one
\* compare-and-swap from FLUSH_REQUESTED to FLUSH_SCHEDULED.
MarkFlushScheduled(flush_state) ==
    IF flush_state = "FLUSH_REQUESTED"
    THEN [won |-> TRUE, flush_state |-> "FLUSH_SCHEDULED"]
    ELSE [won |-> FALSE, flush_state |-> flush_state]

InitFlush ==
    /\ Constructed(WriteBatch0)
    /\ it = NotIterating
    /\ ins = NoInserter
    /\ grp = NoGroup
    /\ memtables = NoMemtables
    /\ \E fs \in [Threads -> BOOLEAN] :
          threads = [t \in Threads |->
                       [pc |-> "record", flush_scheduler_ |-> fs[t],
                        cf |-> 0, left |-> MaxRecords, applied |-> FALSE]]

\* Only the threads run.
OnlyThreads == UNCHANGED <<batchVars, steps, it, ins, grp>>

\* A callback of thread t on a record of column family cf returns before
\* CheckMemtableFull: the record is skipped or filtered.
RecordSkipped(t, cf) ==
    /\ threads[t].pc = "record"
    /\ threads[t].left > 0
    /\ threads' = [threads EXCEPT ![t].left = @ - 1, ![t].cf = cf,
                                  ![t].applied = FALSE]
    /\ UNCHANGED memtables

\* A callback of thread t writes to the memtable of cf, which may come to
\* request its flush with that write, and goes on to CheckMemtableFull.
RecordApplied(t, cf, full) ==
    /\ threads[t].pc = "record"
    /\ threads[t].left > 0
    /\ threads' = [threads EXCEPT ![t].left = @ - 1, ![t].cf = cf,
                                  ![t].applied = TRUE, ![t].pc = "check"]
    /\ memtables' = IF full /\ memtables.flush_state_[cf] = "FLUSH_NOT_REQUESTED"
                THEN [memtables EXCEPT !.flush_state_[cf] = "FLUSH_REQUESTED"]
                ELSE memtables

\* if (flush_scheduler_ != nullptr)
CheckFlushScheduler(t) ==
    /\ threads[t].pc = "check"
    /\ threads' = [threads EXCEPT ![t].pc = IF threads[t].flush_scheduler_
                                            THEN "should" ELSE "record"]
    /\ UNCHANGED memtables

\* cfd->mem()->ShouldScheduleFlush() &&
CheckShouldSchedule(t) ==
    /\ threads[t].pc = "should"
    /\ threads' =
         [threads EXCEPT ![t].pc =
            IF ShouldScheduleFlush(memtables.flush_state_[threads[t].cf])
            THEN "mark" ELSE "record"]
    /\ UNCHANGED memtables

\* Where the thread goes after MarkFlushScheduled().
AfterMark_Always(won) == "schedule"

AfterMark(won) == IF won THEN "schedule" ELSE "record"

\* cfd->mem()->MarkFlushScheduled()
CheckMark(t) ==
    /\ threads[t].pc = "mark"
    /\ threads' =
         [threads EXCEPT ![t].pc =
            AfterMark(MarkFlushScheduled(memtables.flush_state_[threads[t].cf]).won)]
    /\ memtables' =
         [memtables EXCEPT
            !.flush_state_[threads[t].cf] =
                MarkFlushScheduled(@).flush_state,
            !.claimed[threads[t].cf] =
                IF MarkFlushScheduled(memtables.flush_state_[threads[t].cf]).won
                THEN @ + 1 ELSE @]

\* flush_scheduler_->ScheduleFlush(cfd)
CheckSchedule(t) ==
    /\ threads[t].pc = "schedule"
    /\ threads' = [threads EXCEPT ![t].pc = "record"]
    /\ memtables' = [memtables EXCEPT
                   !.scheduled = Append(@, [t |-> t, cf |-> threads[t].cf])]

NextFlush ==
    \/ \E t \in Threads, cf \in ColumnFamilyIds :
          OnlyThreads /\ RecordSkipped(t, cf)
    \/ \E t \in Threads, cf \in ColumnFamilyIds, full \in BOOLEAN :
          OnlyThreads /\ RecordApplied(t, cf, full)
    \/ \E t \in Threads : OnlyThreads /\ CheckFlushScheduler(t)
    \/ \E t \in Threads : OnlyThreads /\ CheckShouldSchedule(t)
    \/ \E t \in Threads : OnlyThreads /\ CheckMark(t)
    \/ \E t \in Threads : OnlyThreads /\ CheckSchedule(t)

SpecFlush == InitFlush /\ [][NextFlush]_vars

\* ------------------------------------------------------------------------
\* HasPut / HasDelete / HasSingleDelete / HasMerge called by concurrent
\* readers of one batch: ComputeContentFlags, one statement at a time
\* ------------------------------------------------------------------------

\* A callback of BatchContentClassifier for a record of this kind;
\* Handler::LogData leaves the classifier as it is.
Classify_Overwrite(content_flags, kind) == KindFlag(kind)

Classify(content_flags, kind) == BitOr(content_flags, KindFlag(kind))

\* The batches the readers are given: written by the append operations, or
\* constructed from the string of such a batch.
InitReaders ==
    /\ \E recs \in RecordLists(IterRecords), deferred \in BOOLEAN :
          /\ Constructed(IF deferred
                         THEN WriteBatchFromRep(Encoded(recs))
                         ELSE AppendAll(WriteBatch0, recs))
          /\ it = [NotIterating EXCEPT !.written = recs]
    /\ ins = NoInserter
    /\ grp = NoGroup
    /\ memtables = NoMemtables
    /\ \E f \in [Threads -> {HAS_PUT, HAS_DELETE, HAS_SINGLE_DELETE, HAS_MERGE}] :
          threads = [t \in Threads |->
                       [pc |-> "load", f |-> f[t], rv |-> 0, input |-> <<>>,
                        content_flags |-> 0, stored |-> FALSE,
                        result |-> FALSE]]

\* Only the readers run.
OnlyReaders ==
    UNCHANGED <<save_points_, heap, live, alive, pushed, last, steps, it, ins,
                grp, memtables>>

\* auto rv = content_flags_.load(); if ((rv & DEFERRED) != 0): Iterate
\* begins on a new classifier.
HasLoad(t) ==
    /\ ~crashed
    /\ threads[t].pc = "load"
    /\ threads' =
         [threads EXCEPT
            ![t].rv = batch[1].content_flags,
            ![t].pc = IF HasBit(batch[1].content_flags, DEFERRED)
                      THEN "iterate" ELSE "return",
            ![t].input = IF Len(batch[1].rep) < kHeader THEN <<>>
                         ELSE Payload(batch[1].rep),
            ![t].content_flags = 0]
    /\ UNCHANGED <<batch, crashed>>

\* One turn of Iterate's loop with the classifier: the loop ends, or a
\* record fails to decode, or a record is dispatched past the assertion on
\* content_flags_; rv = classifier.content_flags when Iterate has returned.
HasIterate(t) ==
    /\ ~crashed
    /\ threads[t].pc = "iterate"
    /\ IF threads[t].input = <<>>
          \/ ReadRecordFromWriteBatch(threads[t].input).s # OK
       THEN /\ threads' = [threads EXCEPT ![t].pc = "store",
                                          ![t].rv = threads[t].content_flags]
            /\ UNCHANGED crashed
       ELSE IF IterateAsserts(batch[1].content_flags, Head(threads[t].input))
       THEN /\ threads' =
                 [threads EXCEPT
                    ![t].input = ReadRecordFromWriteBatch(@).input,
                    ![t].content_flags =
                        Classify(@, TagKind(Head(threads[t].input)))]
            /\ UNCHANGED crashed
       ELSE /\ crashed' = TRUE
            /\ UNCHANGED threads
    /\ UNCHANGED batch

\* content_flags_.store(rv, std::memory_order_relaxed)
HasStore(t) ==
    /\ ~crashed
    /\ threads[t].pc = "store"
    /\ batch' = [batch EXCEPT ![1].content_flags = threads[t].rv]
    /\ threads' = [threads EXCEPT ![t].pc = "return", ![t].stored = TRUE]
    /\ UNCHANGED crashed

\* return (ComputeContentFlags() & f) != 0
HasReturn(t) ==
    /\ ~crashed
    /\ threads[t].pc = "return"
    /\ threads' = [threads EXCEPT ![t].pc = "done",
                                  ![t].result = HasBit(threads[t].rv, threads[t].f)]
    /\ UNCHANGED <<batch, crashed>>

NextReaders ==
    \/ \E t \in Threads : OnlyReaders /\ HasLoad(t)
    \/ \E t \in Threads : OnlyReaders /\ HasIterate(t)
    \/ \E t \in Threads : OnlyReaders /\ HasStore(t)
    \/ \E t \in Threads : OnlyReaders /\ HasReturn(t)

SpecReaders == InitReaders /\ [][NextReaders]_vars

\* ------------------------------------------------------------------------
\* The batch container: one batch under its public operations and
\* WriteBatchInternal::Append
\* ------------------------------------------------------------------------

Init ==
    /\ BatchInit
    /\ it = NotIterating
    /\ ins = NoInserter
    /\ grp = NoGroup
    /\ threads = NoThreads
    /\ memtables = NoMemtables

\* A batch operation, not counted; no Iterate is running.
Uncounted == UNCHANGED <<steps, it, ins, grp, threads, memtables>>

\* A batch operation, one more of at most MaxSteps; no Iterate is running.
Counted ==
    /\ steps < MaxSteps
    /\ steps' = steps + 1
    /\ UNCHANGED <<it, ins, grp, threads, memtables>>

Next ==
    \/ Uncounted /\ \E cf \in ColumnFamilyIds, k \in Keys, v \in Values :
                       Put(1, cf, k, v)
    \/ Uncounted /\ \E cf \in ColumnFamilyIds, k \in Keys : Delete(1, cf, k)
    \/ Uncounted /\ \E cf \in ColumnFamilyIds, k \in Keys : SingleDelete(1, cf, k)
    \/ Uncounted /\ \E cf \in ColumnFamilyIds, k \in Keys, v \in Values :
                       Merge(1, cf, k, v)
    \/ Uncounted /\ \E bl \in Blobs : PutLogData(1, bl)
    \/ Uncounted /\ Clear(1)
    \/ Uncounted /\ HasQuery(1)
    \/ Uncounted /\ SetSavePoint(1)
    \/ Uncounted /\ RollbackToSavePoint(1)
    \/ Uncounted /\ \E src \in SrcBatches : AppendFrom(1, src)

Spec == Init /\ [][Next]_vars

\* The batch container with WriteBatchInternal::SetContents as well.
NextContents ==
    \/ Counted /\ \E cf \in ColumnFamilyIds, k \in Keys, v \in Values :
                     Put(1, cf, k, v)
    \/ Counted /\ \E cf \in ColumnFamilyIds, k \in Keys : Delete(1, cf, k)
    \/ Counted /\ \E cf \in ColumnFamilyIds, k \in Keys : SingleDelete(1, cf, k)
    \/ Counted /\ \E cf \in ColumnFamilyIds, k \in Keys, v \in Values :
                     Merge(1, cf, k, v)
    \/ Counted /\ \E bl \in Blobs : PutLogData(1, bl)
    \/ Counted /\ Clear(1)
    \/ Counted /\ HasQuery(1)
    \/ Counted /\ SetSavePoint(1)
    \/ Counted /\ RollbackToSavePoint(1)
    \/ Counted /\ \E src \in SrcBatches : AppendFrom(1, src)
    \/ Counted /\ \E c \in Contents : SetContents(1, c)
    \/ Counted /\ RollbackAssertFails(1)

SpecContents == Init /\ [][NextContents]_vars

\* A batch and its copy: both under append, save-point and clear
\* operations, copy construction, copy assignment and destruction.
NextCopy ==
    \/ Counted /\ \E b \in BatchIds, k \in Keys, v \in Values : Put(b, 0, k, v)
    \/ Counted /\ \E b \in BatchIds : Clear(b)
    \/ Counted /\ \E b \in BatchIds : SetSavePoint(b)
    \/ Counted /\ \E b \in BatchIds : RollbackToSavePoint(b)
    \/ Counted /\ \E b \in BatchIds : RollbackAssertFails(b)
    \/ Counted /\ \E dst \in BatchIds, src \in BatchIds : CopyConstruct(dst, src)
    \/ Counted /\ \E dst \in BatchIds, src \in BatchIds : CopyAssign(dst, src)
    \/ Counted /\ \E b \in BatchIds : Destroy(b)
    \/ Counted /\ \E b \in BatchIds : UseAfterFree(b)
    \/ Counted /\ \E b \in BatchIds : DoubleDelete(b)

SpecCopy == Init /\ [][NextCopy]_vars

\* WriteBatchInternal::Append by itself, on every batch a run starts from.
NextAppend == Counted /\ \E src \in SrcBatches : AppendFrom(1, src)

SpecAppend == Init /\ [][NextAppend]_vars

\* ------------------------------------------------------------------------
\* WriteBatchInternal::AppendedByteSize beside WriteBatchInternal::Append
\* ------------------------------------------------------------------------

\* The byte sizes AppendedByteSize is given: none, less than a header, a
\* header, more.
ByteSizes == {0, 1, kHeader - 1, kHeader, kHeader + 1, kHeader + MaxPayload}

\* A caller asks for the size of two buffers appended.
AppendedByteSizeCall(leftByteSize, rightByteSize) ==
    /\ last' = [op |-> "AppendedByteSize",
                leftByteSize |-> leftByteSize,
                rightByteSize |-> rightByteSize,
                result |-> AppendedByteSize(leftByteSize, rightByteSize)]
    /\ UNCHANGED <<batch, save_points_, heap, live, alive, crashed, pushed>>

NextSizes ==
    \/ Counted /\ \E src \in SrcBatches : AppendFrom(1, src)
    \/ Counted /\ \E a \in ByteSizes, b \in ByteSizes :
                     AppendedByteSizeCall(a, b)

SpecSizes == Init /\ [][NextSizes]_vars

\* ------------------------------------------------------------------------
\* Properties of the batch container
\* ------------------------------------------------------------------------

\* The last step was a rollback that popped a save-point.
RolledBack == last.op = "RollbackToSavePoint" /\ last.branch # "NotFound"

\* C2: after a rollback that pops save-point S, the buffer
\* bytes, the header count and the content-flag word are those of the moment
\* S was pushed.
C2_RollbackRestoresAll ==
    RolledBack =>
        /\ batch[last.b].rep = last.snap.rep
        /\ Count(batch[last.b].rep) = Count(last.snap.rep)
        /\ batch[last.b].content_flags = last.snap.content_flags

\* C5: the header count is the number of non-log-data records of the
\* payload, and Iterate with an always-OK visitor returns OK.
C5_CountMatchesRecords ==
    \A b \in alive :
        LET run == Iterate(batch[b].rep)
        IN  /\ run.s = OK
            /\ Count(batch[b].rep) =
                   Cardinality({i \in 1..Len(run.recs) : run.recs[i].kind # "LogData"})

\* C5 witness: Append has spliced a batch onto one that holds a save-point,
\* and the payload is one counted record and one log-data record.
C5_Witness ==
    /\ last.op = "Append"
    /\ Len(Stack(1)) > 0
    /\ Count(batch[1].rep) = 1
    /\ Len(Iterate(batch[1].rep).recs) = 2

\* C7 (as stated): rolling back to a save-point of recorded size 12 after
\* the buffer has grown is a full clear: 12 zero bytes, flag word 0, empty
\* save-point stack.
C7_RollbackToHeaderClears ==
    (RolledBack /\ last.sp.size = kHeader /\ last.branch # "noop") =>
        /\ batch[last.b].rep = Zeros(kHeader)
        /\ batch[last.b].content_flags = 0
        /\ Stack(last.b) = <<>>

\* C7 (amended): rolling back to a save-point of recorded size 12 after the
\* buffer has grown truncates the buffer to its 12-byte header, keeps the
\* sequence field, sets the count to the recorded count and the flag word to
\* the recorded flag word (DEFERRED included) and pops that one save-point
\* only; Clear is not called.
C7_RollbackToHeaderTruncates ==
    [][ \A b \in BatchIds :
          ( /\ last'.op = "RollbackToSavePoint"
            /\ last'.b = b
            /\ last'.branch \notin {"NotFound", "noop"}
            /\ last'.sp.size = kHeader )
          => /\ last'.branch = "truncate"
             /\ batch'[b].rep =
                   SetCount(SubSeq(batch[b].rep, 1, kHeader), last'.sp.count)
             /\ batch'[b].content_flags = last'.sp.content_flags
             /\ (Stack(b))' = SubSeq(Stack(b), 1, Len(Stack(b)) - 1) ]_vars

\* C7 witness: such a rollback left a sequence number, DEFERRED and another
\* save-point behind.
C7_Witness ==
    /\ RolledBack
    /\ last.sp.size = kHeader
    /\ last.branch = "truncate"
    /\ Sequence(batch[last.b].rep) = 7
    /\ batch[last.b].content_flags = DEFERRED
    /\ Len(Stack(last.b)) = 1

\* C6: while DEFERRED is clear, the HAS_* bits of the content-flag word are
\* exactly the record kinds of the payload (what a classification of the
\* payload yields), so no assertion of Iterate on the flag word can fail.
C6_FlagsMatchPayload ==
    \A b \in alive :
        ~HasBit(batch[b].content_flags, DEFERRED) =>
            /\ Iterate(batch[b].rep).s = OK
            /\ batch[b].content_flags = Iterate(batch[b].rep).content_flags

\* C4: a copy is deep over the save-point stack: SetSavePoint,
\* RollbackToSavePoint or Clear on one of a batch and its copy leaves the
\* other's save-point stack, its depth and its entries, as it was.
C4_CopyIsDeep ==
    [][ \A b \in BatchIds, c \in BatchIds :
          ( /\ b # c
            /\ {b, c} \subseteq alive
            /\ last'.b = c
            /\ last'.op \in {"SetSavePoint", "RollbackToSavePoint", "Clear"} )
          => (Stack(b))' = Stack(b) ]_vars

\* ------------------------------------------------------------------------
\* Properties of Iterate
\* ------------------------------------------------------------------------

\* The number of records dispatched that are not log data.
NonLog(log) == Cardinality({i \in 1..Len(log) : log[i].rec.kind # "LogData"})

\* Every callback so far returned OK.
AllOK(log) == \A i \in 1..Len(log) : log[i].s = OK

\* The buffer is the records written and nothing else, and its header
\* count is the number of them that are not log data.
WellFormed(b) == batch[b].rep = Encoded(it.written)

\* C3: when Continue() returns false before every record of a well-formed
\* batch has been dispatched, Iterate returns OK.
C3_StopIsClean ==
    ( /\ it.pc = "done"
      /\ it.stopped
      /\ WellFormed(1)
      /\ Len(it.log) < Len(it.written) )
    => it.ret = OK

\* C8: the records dispatched are the first records of the buffer, in buffer
\* order and each once; a callback that returned a non-OK status is the
\* last one called, and Iterate returns that status.
C8_DispatchInOrderHaltOnError ==
    /\ Len(it.log) <= Len(it.written)
    /\ \A i \in 1..Len(it.log) : it.log[i].rec = it.written[i]
    /\ \A i \in 1..Len(it.log), j \in 1..Len(it.log) :
          i < j => it.log[i].at < it.log[j].at
    /\ \A i \in 1..Len(it.log) :
          it.log[i].s # OK =>
              /\ i = Len(it.log)
              /\ it.s = it.log[i].s
              /\ it.pc = "done" => it.ret = it.log[i].s

\* A callback returned a non-OK status with records left in the buffer and
\* a header count that is not the number of records dispatched; Iterate has
\* returned.
C8_Witness ==
    /\ it.pc = "done"
    /\ Len(it.log) >= 1
    /\ Len(it.log) < Len(it.written)
    /\ it.log[Len(it.log)].s = NotFound
    /\ it.ret = NotFound
    /\ Count(batch[1].rep) # NonLog(it.log)

\* C9: when every record read decoded and every callback returned OK,
\* Iterate returns OK if the header count is the number of records decoded
\* that are not log data, and Corruption "WriteBatch has wrong count" if it is
\* not; unless Continue() returned false, the records decoded are all the
\* records of the buffer.
C9_CountChecked ==
    ( /\ it.pc = "done"
      /\ Len(batch[1].rep) >= kHeader
      /\ ~it.undecoded
      /\ AllOK(it.log) )
    => /\ it.ret = IF Count(batch[1].rep) = NonLog(it.log)
                   THEN OK
                   ELSE Corruption("WriteBatch has wrong count")
       /\ ~it.stopped =>
             /\ Len(it.log) = Len(it.written)
             /\ \A i \in 1..Len(it.log) : it.log[i].rec = it.written[i]

\* Every record of a buffer decoded and every callback returned OK, the
\* header counts one record more than the buffer holds, and Iterate has
\* returned the Corruption.
C9_Witness ==
    /\ it.pc = "done"
    /\ ~it.stopped
    /\ ~it.undecoded
    /\ Len(it.log) >= 2
    /\ AllOK(it.log)
    /\ Count(batch[1].rep) = NonLog(it.log) + 1
    /\ it.ret = Corruption("WriteBatch has wrong count")

\* ------------------------------------------------------------------------
\* Properties of the MemTableInserter
\* ------------------------------------------------------------------------

\* C1: sequence_ is the batch's sequence number plus the number of records
\* dispatched that are not log data.
C1_SequencePerRecord ==
    it.pc # "idle" =>
        ins.sequence_ = Sequence(batch[1].rep) + NonLog(it.log)

\* The record of the log entry e names a column family that does not exist.
MissingFamily(e) == e.rec.kind # "LogData" /\ e.rec.cf \notin ins.families

\* C10: the callback of a record whose column family is missing writes to no
\* memtable and adds one to sequence_; with
\* ignore_missing_column_families_ it returns OK and the loop goes on,
\* without it returns InvalidArgument; and after a callback that returned a
\* non-OK status Iterate dispatches no record, leaves the inserter and the
\* memtables alone, and returns that status.
C10_MissingColumnFamily ==
    [][ /\ ( /\ Len(it'.log) = Len(it.log) + 1
             /\ MissingFamily(it'.log[Len(it'.log)]) )
           => /\ ins'.mem = ins.mem
              /\ ins'.scheduled = ins.scheduled
              /\ ins'.sequence_ = ins.sequence_ + 1
              /\ it'.s = it'.log[Len(it'.log)].s
              /\ IF ins.ignore_missing_column_families_
                 THEN it'.s = OK /\ it'.pc = "loop"
                 ELSE it'.s = InvalidArgument(
                                "Invalid column family specified in write batch")
        /\ (it.pc = "loop" /\ it.s # OK)
           => /\ it'.log = it.log
              /\ ins' = ins
              /\ it'.pc = "done"
              /\ it'.ret = it.s
      ]_vars

\* With ignore_missing_column_families_, the first record named a missing
\* column family, its callback returned OK, and the next record was applied
\* under the next sequence number.
C10_Witness ==
    /\ ins.ignore_missing_column_families_
    /\ Len(it.log) >= 2
    /\ MissingFamily(it.log[1])
    /\ it.log[1].s = OK
    /\ it.log[2].rec.kind = "Put"
    /\ it.log[2].rec.cf \in ins.families
    /\ \E e \in 1..Len(ins.mem[0]) :
          ins.mem[0][e].seq = Sequence(batch[1].rep) + 1

RECURSIVE NotFailedBefore(_, _)
NotFailedBefore(w, n) ==
    IF n <= 1 THEN <<>>
    ELSE IF w[n - 1].callback_failed
         THEN NotFailedBefore(w, n - 1)
         ELSE Append(NotFailedBefore(w, n - 1), n - 1)

\* C12: group apply takes the writers in list order.  A writer whose
\* callback failed is skipped: its batch is not iterated, its status slot is
\* not written and the step changes neither the inserter (so no sequence
\* number is consumed) nor any batch.  Every other writer reached has its
\* batch iterated and its status slot holds the result of that Iterate.  The
\* first result that is not OK ends the group, which returns that status;
\* no later writer is iterated and no later slot is written.  When all
\* succeed the group returns OK.
C12_GroupApply ==
    /\ [] ( grp.pc # "idle" =>
            /\ grp.begun =
                 NotFailedBefore(grp.writers,
                                 IF grp.pc = "iterating" \/ (grp.pc = "done" /\ grp.ret # OK)
                                 THEN grp.i + 1 ELSE grp.i)
            /\ Len(grp.results) =
                 IF grp.pc = "iterating" THEN Len(grp.begun) - 1
                                         ELSE Len(grp.begun)
            /\ \A k \in 1..Len(grp.results) :
                  /\ grp.writers[grp.begun[k]].status = grp.results[k]
                  /\ k < Len(grp.results) => grp.results[k] = OK
            /\ \A j \in 1..Len(grp.writers) :
                  (\A k \in 1..Len(grp.results) : grp.begun[k] # j)
                      => grp.writers[j].status = NotReturned
            /\ (\E k \in 1..Len(grp.results) : grp.results[k] # OK)
                  => /\ grp.pc = "done"
                     /\ grp.ret = grp.results[Len(grp.results)]
            /\ (grp.pc = "done" /\ \A k \in 1..Len(grp.results) : grp.results[k] = OK)
                  => /\ grp.ret = OK
                     /\ grp.begun =
                          NotFailedBefore(grp.writers, Len(grp.writers) + 1) )
    /\ [][ ( /\ grp.pc = "loop"
             /\ grp.i <= Len(grp.writers)
             /\ grp.writers[grp.i].callback_failed )
           => /\ ins' = ins
              /\ it' = it
              /\ batch' = batch
              /\ grp'.writers = grp.writers
              /\ grp'.i = grp.i + 1
         ]_vars

\* Two writers, neither failed; the first batch's Iterate returned a status
\* that is not OK, the group returned it and the second writer is untouched.
C12_Witness ==
    /\ grp.pc = "done"
    /\ Len(grp.writers) = 2
    /\ ~grp.writers[1].callback_failed
    /\ ~grp.writers[2].callback_failed
    /\ grp.begun = <<1>>
    /\ grp.ret # OK
    /\ grp.ret = grp.writers[1].status
    /\ grp.writers[2].status = NotReturned

\* C13: in group apply the inserter's sequence is seeded from the sequence
\* argument and changes nowhere but inside a record's callback, so the first
\* record of a batch receives what the last record of the batch before it
\* left, and the header of a batch is not read.  The sequence numbers of the
\* memtable writes are the inserter's sequence at the callback and strictly
\* increasing in the order of the writes.  In InsertInto(batch, ...) the
\* first record receives the header's sequence.
C13_SequenceCarried ==
    /\ [] ( /\ \A j \in 1..Len(ins.writes), k \in 1..Len(ins.writes) :
                  j < k => ins.writes[j] < ins.writes[k]
            /\ (grp.pc # "idle" /\ ins.calls # <<>>)
                  => ins.calls[1] = grp.sequence
            /\ (grp.pc = "idle" /\ ins.calls # <<>>)
                  => ins.calls[1] = Sequence(batch[1].rep) )
    /\ [][ /\ (grp.pc # "idle" /\ ins'.sequence_ # ins.sequence_)
                  => /\ grp.pc = "iterating"
                     /\ grp' = grp
                     /\ ins'.calls = Append(ins.calls, ins.sequence_)
           /\ ins'.writes # ins.writes
                  => /\ ins'.writes = Append(ins.writes, ins.sequence_)
                     /\ ins'.calls = Append(ins.calls, ins.sequence_)
         ]_vars

\* Two writers: the batch of the first held a put and a delete, the batch
\* of the second a log entry and a merge; the three writes took the sequence
\* argument and the two numbers after it.
C13_Witness ==
    /\ grp.pc = "done"
    /\ grp.results = <<OK, OK>>
    /\ ins.writes = <<GroupSequence, GroupSequence + 1, GroupSequence + 2>>
    /\ Sequence(batch[1].rep) # GroupSequence

\* The calls of ScheduleFlush for the memtable of cf.
RECURSIVE ScheduledFor(_, _)
ScheduledFor(s, cf) ==
    IF s = <<>> THEN 0
    ELSE ScheduledFor(Tail(s), cf) + (IF Head(s).cf = cf THEN 1 ELSE 0)

\* C14: whatever the interleaving of the appliers, the flush scheduler is
\* notified of a memtable at most once for each claim of its flush, and a
\* memtable's flush is claimed at most once; a thread notifies only after
\* it applied a record, with a flush scheduler, for a memtable whose flush
\* is marked as scheduled; a thread without a flush scheduler never
\* notifies, and a skipped record leads to no notification.
C14_FlushNotifiedOnce ==
    /\ [] ( /\ \A cf \in ColumnFamilyIds :
                  /\ ScheduledFor(memtables.scheduled, cf)
                        <= memtables.claimed[cf]
                  /\ memtables.claimed[cf] <= 1
            /\ \A k \in 1..Len(memtables.scheduled) :
                  threads[memtables.scheduled[k].t].flush_scheduler_ )
    /\ [][ /\ memtables'.scheduled # memtables.scheduled
               => \E t \in Threads :
                     /\ memtables'.scheduled =
                          Append(memtables.scheduled,
                                 [t |-> t, cf |-> threads[t].cf])
                     /\ threads[t].applied
                     /\ threads[t].flush_scheduler_
                     /\ memtables.flush_state_[threads[t].cf] = "FLUSH_SCHEDULED"
           /\ \A t \in Threads :
                 (threads'[t].left # threads[t].left /\ ~threads'[t].applied)
                    => /\ memtables' = memtables
                       /\ threads'[t].pc = "record"
         ]_vars

\* Both threads saw the flush of memtable 0 requested; the first has claimed
\* it and notified the scheduler, the second is at its MarkFlushScheduled.
C14_Witness ==
    /\ memtables.scheduled = <<[t |-> 1, cf |-> 0]>>
    /\ threads[2].pc = "mark"
    /\ threads[2].cf = 0
    /\ threads[2].flush_scheduler_

\* C15: Append(dst, src) leaves in dst the payload of dst followed by the
\* payload of src, the sum of the two counts, the bitwise OR of the two
\* content-flag words and the sequence dst had; and appending X and then Y
\* to a batch gives the payload, count and content flags that appending the
\* batch Append(X, Y) gives.
C15_AppendConcatenates ==
    /\ [][ \A b \in BatchIds :
             (steps' = steps + 1 /\ last'.op = "Append" /\ last'.b = b)
             => /\ Payload(batch'[b].rep)
                     = Payload(batch[b].rep) \o Payload(last'.snap.rep)
                /\ Count(batch'[b].rep)
                     = Count(batch[b].rep) + Count(last'.snap.rep)
                /\ Sequence(batch'[b].rep) = Sequence(batch[b].rep)
                /\ Len(batch'[b].rep)
                     = Len(batch[b].rep) + Len(last'.snap.rep) - kHeader
                /\ \A f \in FlagBits :
                      HasBit(batch'[b].content_flags, f)
                      <=> \/ HasBit(batch[b].content_flags, f)
                          \/ HasBit(last'.snap.content_flags, f)
         ]_vars
    /\ [] ( \A x \in SrcBatches, y \in SrcBatches :
              AppendBatch(AppendBatch(batch[1], x), y)
                = AppendBatch(batch[1], AppendBatch(x, y)) )

\* An empty batch of sequence 0 took a batch of one single delete, and then a
\* serialized batch of one delete, of sequence 9 and of deferred content
\* flags.
C15_Witness ==
    /\ steps = 2
    /\ last.op = "Append"
    /\ last.snap = WriteBatchFromRep(
                       SetSequence(DeleteRec(WriteBatch0, 1, <<97>>).rep, 9))
    /\ Count(batch[1].rep) = 2
    /\ Sequence(batch[1].rep) = 0
    /\ batch[1].content_flags = DEFERRED + HAS_SINGLE_DELETE

\* The tag of a record of the default column family, and the tag of one that
\* names its column family.
DefaultTag(kind) ==
    CASE kind = "Put" -> kTypeValue
      [] kind = "Delete" -> kTypeDeletion
      [] kind = "SingleDelete" -> kTypeSingleDeletion
      [] kind = "Merge" -> kTypeMerge
      [] kind = "LogData" -> kTypeLogData

ColumnFamilyTag(kind) ==
    CASE kind = "Put" -> kTypeColumnFamilyValue
      [] kind = "Delete" -> kTypeColumnFamilyDeletion
      [] kind = "SingleDelete" -> kTypeColumnFamilySingleDeletion
      [] kind = "Merge" -> kTypeColumnFamilyMerge

\* C16: Iterate hands the visitor the records written to a new batch by
\* Put, Delete, SingleDelete, Merge and PutLogData: each one delivered is
\* the one written at its place, with its kind, column family, key and
\* value or blob, and an Iterate that returns OK without having been stopped
\* delivered them all.  A record of column family 0 is written as the
\* default tag with no column family after it, any other as the
\* column-family tag and then the column family.
C16_RoundTrip ==
    /\ [] ( /\ Len(it.log) <= Len(it.written)
            /\ \A k \in 1..Len(it.log) : it.log[k].rec = it.written[k]
            /\ (it.pc = "done" /\ it.ret = OK /\ ~it.stopped)
                  => Len(it.log) = Len(it.written) )
    /\ [][ Len(it'.written) = Len(it.written) + 1
           => LET r == it'.written[Len(it'.written)]
                  old == Len(batch[1].rep)
                  new == batch'[1].rep
              IN  /\ SubSeq(new, kHeader + 1, old) = Payload(batch[1].rep)
                  /\ IF r.cf = 0
                     THEN /\ new[old + 1] = DefaultTag(r.kind)
                          /\ new[old + 2] =
                               Len(IF r.kind = "LogData" THEN r.value ELSE r.key)
                          /\ Len(new) = old + 2 + Len(r.key) + Len(r.value)
                                        + (IF r.kind \in {"Put", "Merge"}
                                           THEN 1 ELSE 0)
                     ELSE /\ new[old + 1] = ColumnFamilyTag(r.kind)
                          /\ new[old + 2] = r.cf
                          /\ new[old + 3] = Len(r.key)
                          /\ Len(new) = old + 3 + Len(r.key) + Len(r.value)
                                        + (IF r.kind \in {"Put", "Merge"}
                                           THEN 1 ELSE 0)
         ]_vars

\* A delete of column family 0 and a single delete of column family 1 were
\* written,
\* and Iterate has delivered both and returned OK.
C16_Witness ==
    /\ it.written = <<Rec("Delete", 0, <<97>>, <<>>),
                      Rec("SingleDelete", 1, <<97>>, <<>>)>>
    /\ it.pc = "done"
    /\ it.ret = OK
    /\ Len(it.log) = 2
    /\ it.log[2].rec.cf = 1

\* C17: RollbackToSavePoint on a batch that has no save-point stack, or an
\* empty one, returns NotFound and leaves the buffer (the count with it),
\* the content flags, the pointer to the stack and the stack as they were.
C17_RollbackNotFound ==
    [][ \A b \in BatchIds :
          ( /\ steps' = steps + 1
            /\ last'.op = "RollbackToSavePoint"
            /\ last'.b = b
            /\ save_points_[b] = NULL \/ Stack(b) = <<>> )
          => /\ last'.branch = "NotFound"
             /\ batch' = batch
             /\ Count(batch'[b].rep) = Count(batch[b].rep)
             /\ save_points_' = save_points_
             /\ heap' = heap
      ]_vars

\* The stack was allocated and is empty again, the batch holds a record,
\* and the rollback returned NotFound.
C17_Witness ==
    /\ last.op = "RollbackToSavePoint"
    /\ last.branch = "NotFound"
    /\ save_points_[1] # NULL
    /\ Stack(1) = <<>>
    /\ Count(batch[1].rep) = 1
    /\ Len(batch[1].rep) > kHeader

\* C18: Clear leaves a buffer of 12 bytes, all of them zero (sequence 0 and
\* count 0), the content-flag word 0 and the save-point stack, where there is
\* one, empty.
C18_ClearResets ==
    [][ \A b \in BatchIds :
          (steps' = steps + 1 /\ last'.op = "Clear" /\ last'.b = b)
          => /\ Len(batch'[b].rep) = 12
             /\ \A k \in 1..12 : batch'[b].rep[k] = 0
             /\ Sequence(batch'[b].rep) = 0
             /\ Count(batch'[b].rep) = 0
             /\ batch'[b].content_flags = 0
             /\ ~HasBit(batch'[b].content_flags, DEFERRED)
             /\ save_points_'[b] = save_points_[b]
             /\ save_points_'[b] # NULL => heap'[save_points_'[b]] = <<>>
      ]_vars

\* Clear was the third operation on a batch that has a save-point stack.
C18_Witness ==
    /\ last.op = "Clear"
    /\ steps = 3
    /\ save_points_[1] # NULL
    /\ batch[1] = WriteBatch0
    /\ Stack(1) = <<>>

\* C19: PutLogData lengthens the buffer and changes neither the header count
\* nor the content-flag word.  In Iterate a log-data record goes to the
\* LogData callback with its blob and is not counted in found, so that found
\* is the number of the other records dispatched and an Iterate that
\* dispatched every record written returns OK; with the MemTableInserter as
\* the visitor the record changes neither a memtable nor sequence_ nor what
\* was passed to the flush scheduler.
C19_LogDataTransparent ==
    /\ [][ /\ ( /\ Len(it'.written) = Len(it.written) + 1
                 /\ it'.written[Len(it'.written)].kind = "LogData" )
               => /\ Count(batch'[1].rep) = Count(batch[1].rep)
                  /\ batch'[1].content_flags = batch[1].content_flags
                  /\ Len(batch'[1].rep) > Len(batch[1].rep)
           /\ ( /\ Len(it'.log) = Len(it.log) + 1
                 /\ it'.log[Len(it'.log)].rec.kind = "LogData" )
               => /\ it'.found = it.found
                  /\ it'.s = it.s
                  /\ it'.log[Len(it'.log)].rec = it.written[Len(it'.log)]
                  /\ ins'.returned_at = "LogData"
                  /\ ins'.mem = ins.mem
                  /\ ins'.sequence_ = ins.sequence_
                  /\ ins'.scheduled = ins.scheduled
                  /\ ins'.writes = ins.writes
         ]_vars
    /\ [] ( /\ it.found = NonLog(it.log)
            /\ (it.pc = "done" /\ Len(it.log) = Len(it.written) /\ AllOK(it.log))
                  => /\ it.ret = OK
                     /\ Count(batch[1].rep) = NonLog(it.log) )

\* A log entry and a delete were written; the inserter has taken both, the
\* delete under the batch's sequence number, and Iterate returned OK on the
\* count 1.
C19_Witness ==
    /\ it.written = <<Rec("LogData", 0, <<>>, <<120>>), Rec("Delete", 0, <<97>>, <<>>)>>
    /\ it.pc = "done"
    /\ it.ret = OK
    /\ it.found = 1
    /\ Len(it.log) = 2
    /\ ins.writes = <<Sequence(batch[1].rep)>>

\* The flags of the kinds of the records recs.
Classification(recs) ==
    SumSet({KindFlag(recs[k].kind) : k \in 1..Len(recs)} \ {0})

\* C20: readers of a well-formed batch that call HasPut, HasDelete,
\* HasSingleDelete or HasMerge, interleaved in any way: the buffer and its
\* count stay what they were, no assertion fails, every reader returns
\* whether a record of the kind it asks for was written, and the flag word
\* is DEFERRED or the flags of the kinds written, the latter once a reader
\* has returned; a reader that found DEFERRED stores the flags of the kinds
\* written.
C20_HasIsPure ==
    /\ [] ( /\ ~crashed
            /\ Payload(batch[1].rep) = Payload(Encoded(it.written))
            /\ Count(batch[1].rep) = NonLog([k \in 1..Len(it.written) |->
                                               [rec |-> it.written[k]]])
            /\ batch[1].content_flags
                 \in {DEFERRED, Classification(it.written)}
            /\ \A t \in Threads :
                  /\ threads[t].pc = "done"
                       => /\ threads[t].result
                               = (\E k \in 1..Len(it.written) :
                                     KindFlag(it.written[k].kind) = threads[t].f)
                          /\ batch[1].content_flags = Classification(it.written)
                  /\ threads[t].stored
                       => ~HasBit(batch[1].content_flags, DEFERRED) )
    /\ [][ \A t \in Threads :
             (threads'[t].stored /\ ~threads[t].stored)
             => /\ HasBit(threads[t].rv, DEFERRED) = FALSE
                /\ batch'[1].content_flags = Classification(it.written)
                /\ batch'[1].rep = batch[1].rep
         ]_vars

\* Both readers found DEFERRED on a batch of a put and a delete and both
\* classified it; the first has stored and returned, the second is about to
\* store.
C20_Witness ==
    /\ it.written = <<Rec("Put", 0, <<97>>, <<98>>), Rec("Delete", 1, <<97>>, <<>>)>>
    /\ threads[1].pc = "done"
    /\ threads[1].stored
    /\ threads[1].f = HAS_DELETE
    /\ threads[1].result
    /\ threads[2].pc = "store"
    /\ batch[1].content_flags = HAS_PUT + HAS_DELETE

\* C21: in every state the sizes recorded in the save-point stack of the
\* batch do not decrease from the bottom to the top, every recorded size is
\* at least 12 and at most the length of the buffer, and every recorded count
\* is at most the count in the header; so the assertions of
\* RollbackToSavePoint hold for the save-point on top.
C21_SavePointsWithinBuffer ==
    \A b \in alive :
        /\ \A j \in 1..Len(Stack(b)), k \in 1..Len(Stack(b)) :
               j <= k => Stack(b)[j].size <= Stack(b)[k].size
        /\ \A k \in 1..Len(Stack(b)) :
               /\ kHeader <= Stack(b)[k].size
               /\ Stack(b)[k].size <= Len(batch[b].rep)
               /\ Stack(b)[k].count <= Count(batch[b].rep)
        /\ Len(Stack(b)) > 0
               => RollbackAsserts(batch[b], Stack(b)[Len(Stack(b))])

\* The callback of the loop body runs on a record of this kind whose column
\* family SeekToColumnFamily finds, and returns.
Applies(kind) ==
    /\ Answered(1, kind)
    /\ Len(ins'.calls) = Len(ins.calls) + 1
    /\ ReadRecordFromWriteBatch(it.input).column_family \in ins.families
    /\ ~(ins.log_number_ # 0 /\ ins.log_number_ < memtables.answers.cf_log)

\* The callback of the step has added these entries to the memtable of cf,
\* and none to another.
Added(cf, entries) ==
    /\ ins'.mem[cf] = ins.mem[cf] \o entries
    /\ \A other \in ColumnFamilyIds \ {cf} : ins'.mem[other] = ins.mem[other]

\* The folded merge: max_successive_merges is positive, db is given, the
\* count of successive merges has reached the threshold and FullMerge
\* succeeds.
Folded ==
    /\ memtables.answers.max_successive_merges > 0
    /\ ins.db_
    /\ memtables.answers.num_merges >= memtables.answers.max_successive_merges
    /\ memtables.answers.merge_success

\* C22: a merge record whose column family is found and current adds exactly
\* one entry to that family's memtable, at the current sequence number: a
\* Value entry holding the folded result (and no Merge entry) when the fold
\* is taken and the merge operator succeeds, a Merge entry holding the
\* incoming operand otherwise; the callback returns OK.
C22_MergeAddsOneEntry ==
    [][Applies("Merge")
       => /\ Added(ReadRecordFromWriteBatch(it.input).column_family,
                   << [how |-> "Add", seq |-> ins.sequence_,
                       type |-> IF Folded THEN kTypeValue ELSE kTypeMerge,
                       key |-> ReadRecordFromWriteBatch(it.input).key,
                       value |-> IF Folded THEN NewValue
                                 ELSE ReadRecordFromWriteBatch(it.input).value] >>)
          /\ it'.s = OK
          /\ it'.log[Len(it'.log)].s = OK]_vars

\* A merge whose fold was tried and failed has been applied after a first
\* one: the memtable holds the two operands.
C22_Witness ==
    /\ it.pc # "idle"
    /\ memtables.answers.max_successive_merges > 0
    /\ memtables.answers.num_merges >= memtables.answers.max_successive_merges
    /\ ~memtables.answers.merge_success
    /\ ins.db_
    /\ Len(ins.mem[1]) = 2
    /\ \A k \in 1..2 : ins.mem[1][k].type = kTypeMerge

\* The entry a callback of the step passes to the memtable of its family.
Entry(how, type, value) ==
    [how |-> how, seq |-> ins.sequence_, type |-> type,
     key |-> ReadRecordFromWriteBatch(it.input).key, value |-> value]

\* What PutCF passes to the memtable under the options and answers of the
\* run, by the three variants of the claim.
PutEntries ==
    IF ~memtables.answers.inplace_update_support
    THEN << Entry("Add", kTypeValue, ReadRecordFromWriteBatch(it.input).value) >>
    ELSE IF ~memtables.answers.inplace_callback
    THEN << Entry("Update", kTypeValue,
                  ReadRecordFromWriteBatch(it.input).value) >>
    ELSE IF memtables.answers.update_callback
    THEN << Entry("UpdateCallback", kTypeValue,
                  ReadRecordFromWriteBatch(it.input).value) >>
    ELSE CASE memtables.answers.status = "UPDATED_INPLACE"
                -> << Entry("Add", kTypeValue, PrevValue) >>
           [] memtables.answers.status = "UPDATED"
                -> << Entry("Add", kTypeValue, MergedValue) >>
           [] OTHER -> << >>

\* The flush check has run on the family cf: the family is handed to the
\* flush scheduler when there is one and the memtable asks for it.
FlushChecked(cf) ==
    ins'.scheduled = IF ins.flush_scheduler_ /\ memtables.answers.flush
                     THEN ins.scheduled \cup {cf}
                     ELSE ins.scheduled

\* C23: a put record whose column family is found and current is applied by
\* one of three variants: without in-place update support a Value entry is
\* added at the current sequence number; with in-place update and no user
\* callback the memtable's Update is called and nothing else; with a user
\* callback nothing is added when UpdateCallback handled the key, else a
\* Value entry is added on UPDATED_INPLACE (the prior buffer) or UPDATED (the
\* merged buffer) and nothing on any other outcome.  The callback returns OK
\* and the flush check runs.
C23_PutVariants ==
    [][Applies("Put")
       => /\ Added(ReadRecordFromWriteBatch(it.input).column_family, PutEntries)
          /\ it'.s = OK
          /\ it'.log[Len(it'.log)].s = OK
          /\ ins'.returned_at = "end"
          /\ FlushChecked(ReadRecordFromWriteBatch(it.input).column_family)]_vars

\* A put was rejected by the user's callback after the database was read:
\* the callback has returned and no memtable holds an entry.
C23_Witness ==
    /\ it.pc # "idle"
    /\ memtables.answers.inplace_callback
    /\ ~memtables.answers.update_callback
    /\ memtables.answers.status = "UPDATE_FAILED"
    /\ Len(ins.calls) = 1
    /\ ins.returned_at = "end"
    /\ ins.queries = << [call |-> "Get", snapshot |-> ins.calls[1]] >>
    /\ \A cf \in ColumnFamilyIds : ins.mem[cf] = << >>

\* The delete of the step is dropped: deletes are filtered and the database
\* answers that the key does not exist.
Dropped ==
    /\ ~ins.dont_filter_deletes_
    /\ memtables.answers.filter_deletes
    /\ ~memtables.answers.key_may_exist

\* The type of the entry DeleteCF and SingleDeleteCF add.
DeleteType(kind) ==
    IF kind = "Delete" THEN kTypeDeletion ELSE kTypeSingleDeletion

\* C24: a delete or single-delete record whose column family is found and
\* current is dropped (nothing is added, OK is returned) exactly when
\* dont_filter_deletes_ is false, the memtable filters deletes and
\* KeyMayExist answers that the key is absent; otherwise one entry of the
\* record's delete type with an empty value is added at the current sequence
\* number.  With dont_filter_deletes_ set the database is not queried.
C24_DeleteFilter ==
    [][\A kind \in {"Delete", "SingleDelete"} :
          Applies(kind)
          => /\ Added(ReadRecordFromWriteBatch(it.input).column_family,
                      IF Dropped THEN << >>
                      ELSE << Entry("Add", DeleteType(kind), << >>) >>)
             /\ it'.s = OK
             /\ it'.log[Len(it'.log)].s = OK
             /\ ins.dont_filter_deletes_ => ins'.queries = << >>]_vars

\* A single delete was added with dont_filter_deletes_ set, under a memtable
\* that filters deletes, without a call of the database.
C24_Witness ==
    /\ it.pc # "idle"
    /\ ins.dont_filter_deletes_
    /\ memtables.answers.filter_deletes
    /\ ins.queries = << >>
    /\ Len(ins.mem[1]) = 1
    /\ ins.mem[1][1].type = kTypeSingleDeletion
    /\ ins.mem[1][1].value = << >>

Does(op, b) == b \in alive /\ last'.op = op /\ last'.b = b

\* The save-point stack of b after the step.
StackAfter(b) ==
    IF save_points_'[b] = NULL THEN << >> ELSE heap'[save_points_'[b]]

\* C26: save-points nest in LIFO order.  SetSavePoint pushes one entry that
\* records the buffer length and the count; RollbackToSavePoint on a stack
\* that is not empty returns OK, pops exactly the top entry (also when
\* nothing was appended since the push) and leaves the buffer length and the
\* count that entry's push recorded; on an empty stack it returns NotFound;
\* and no operation but Clear changes the stack otherwise.  So after n
\* SetSavePoint calls with no Clear between them exactly n rollbacks return
\* OK, the k-th restoring what the (n-k+1)-th push recorded, and the next
\* returns NotFound.
C26_SavePointsNest ==
    [][ \A b \in BatchIds :
          /\ Does("SetSavePoint", b)
                => /\ Len(StackAfter(b)) = Len(Stack(b)) + 1
                   /\ SubSeq(StackAfter(b), 1, Len(Stack(b))) = Stack(b)
                   /\ StackAfter(b)[Len(StackAfter(b))].size
                        = Len(batch[b].rep)
                   /\ StackAfter(b)[Len(StackAfter(b))].count
                        = Count(batch[b].rep)
          /\ (Does("RollbackToSavePoint", b) /\ Len(Stack(b)) > 0)
                => /\ last'.branch \notin {"NotFound", "assert"}
                   /\ StackAfter(b) = SubSeq(Stack(b), 1, Len(Stack(b)) - 1)
                   /\ Len(batch'[b].rep) = Len(last'.snap.rep)
                   /\ Count(batch'[b].rep) = Count(last'.snap.rep)
                   /\ Len(batch'[b].rep) = Stack(b)[Len(Stack(b))].size
                   /\ Count(batch'[b].rep) = Stack(b)[Len(Stack(b))].count
          /\ (Does("RollbackToSavePoint", b) /\ Len(Stack(b)) = 0)
                => /\ last'.branch = "NotFound"
                   /\ StackAfter(b) = << >>
          /\ (b \in alive
              /\ ~Does("SetSavePoint", b) /\ ~Does("RollbackToSavePoint", b)
              /\ ~Does("Clear", b))
                => StackAfter(b) = Stack(b)
      ]_vars

====
